---- MODULE Spec2Model ----
(***************************************************************************)
(* A model of the DWARF decoding core of libelfin: the line-number program *)
(* iterator (src/dwarf/line.cc), attribute values (src/dwarf/value.cc) and *)
(* range lists (src/dwarf/rangelist.cc).                                   *)
(*                                                                         *)
(* Sections are sequences of bytes; section offsets are 0-based, so the    *)
(* byte at offset o of section s is s[o + 1].  Every decoder returns a     *)
(* record with the error it raised ("none" when it returned normally).     *)
(*                                                                         *)
(* The unsigned registers of the code (unsigned line, taddr address, ...)  *)
(* are held as integers congruent to the C++ value modulo 2^32 (2^64 for   *)
(* addresses): a line of -2 stands for the unsigned 4294967294.  The code  *)
(* only adds to these registers and compares them for equality; the        *)
(* addresses it orders (find_address, range entries) stay far below 2^64   *)
(* in the inputs generated here unless a definition says otherwise.        *)
(***************************************************************************)
EXTENDS Integers, Sequences, FiniteSets, TLC

\* Largest number of instructions in a generated opcode program.
MaxInstrs == 3

Pow2(n) == 2 ^ n

Last(s) == s[Len(s)]
IsPrefix(s, t) == Len(s) <= Len(t) /\ SubSeq(t, 1, Len(s)) = s

(***************************************************************************)
(* Cursor: a byte reader over a section.  Every read is validated against  *)
(* the section length and fails with format_error otherwise.               *)
(***************************************************************************)
Rd(ok, val, pos) == [ok |-> ok, val |-> val, pos |-> pos]

\* cursor::end()
CurEnd(sec, pos) == pos >= Len(sec)

RECURSIVE LittleEndian(_, _, _)
LittleEndian(sec, pos, n) ==
    IF n = 0 THEN 0 ELSE sec[pos + 1] + 256 * LittleEndian(sec, pos + 1, n - 1)

\* cursor::fixed<T>() for an unsigned T of n bytes, little-endian section
Fixed(sec, pos, n) ==
    IF pos + n > Len(sec) THEN Rd(FALSE, 0, pos)
    ELSE Rd(TRUE, LittleEndian(sec, pos, n), pos + n)

RECURSIVE Complement(_, _, _)
Complement(sec, pos, n) ==
    IF n = 0 THEN 0
    ELSE (255 - sec[pos + 1]) + 256 * Complement(sec, pos + 1, n - 1)

\* cursor::fixed<T>() for a signed T of n bytes: two's complement, so a value
\* with the top bit set is -(~value + 1)
SFixed(sec, pos, n) ==
    IF pos + n > Len(sec) THEN Rd(FALSE, 0, pos)
    ELSE IF sec[pos + n] >= 128
         THEN Rd(TRUE, 0 - (Complement(sec, pos, n) + 1), pos + n)
         ELSE Rd(TRUE, LittleEndian(sec, pos, n), pos + n)

RECURSIVE Uleb128From(_, _, _, _)
Uleb128From(sec, pos, shift, acc) ==
    IF pos >= Len(sec) THEN Rd(FALSE, 0, pos)
    ELSE LET b == sec[pos + 1]
             v == acc + (b % 128) * Pow2(shift)
         IN IF b < 128 THEN Rd(TRUE, v, pos + 1)
            ELSE Uleb128From(sec, pos + 1, shift + 7, v)

\* cursor::uleb128(): 7 data bits per byte, least significant group first
Uleb128(sec, pos) == Uleb128From(sec, pos, 0, 0)

RECURSIVE Sleb128From(_, _, _, _)
Sleb128From(sec, pos, shift, acc) ==
    IF pos >= Len(sec) THEN Rd(FALSE, 0, pos)
    ELSE LET b == sec[pos + 1]
             v == acc + (b % 128) * Pow2(shift)
         IN IF b < 128
            THEN Rd(TRUE, IF (b % 128) >= 64 THEN v - Pow2(shift + 7) ELSE v, pos + 1)
            ELSE Sleb128From(sec, pos + 1, shift + 7, v)

\* cursor::sleb128(): as uleb128, sign-extended from the last group
Sleb128(sec, pos) == Sleb128From(sec, pos, 0, 0)

RECURSIVE CStringFrom(_, _, _)
CStringFrom(sec, pos, acc) ==
    IF pos >= Len(sec) THEN Rd(FALSE, <<>>, pos)
    ELSE IF sec[pos + 1] = 0 THEN Rd(TRUE, acc, pos + 1)
    ELSE CStringFrom(sec, pos + 1, Append(acc, sec[pos + 1]))

\* cursor::string(): a NUL-terminated string; the cursor ends past the NUL
CString(sec, pos) == CStringFrom(sec, pos, <<>>)

\* cursor::address(): addr_size bytes
Address(sec, pos, addr_size) == Fixed(sec, pos, addr_size)

\* cursor::offset(): 4 bytes in 32-bit DWARF, 8 bytes in 64-bit DWARF
Offset(sec, pos, fmt64) == Fixed(sec, pos, IF fmt64 THEN 8 ELSE 4)

(***************************************************************************)
(* Opcode and form numbers                                                 *)
(***************************************************************************)
DW_LNS == [copy |-> 1, advance_pc |-> 2, advance_line |-> 3, set_file |-> 4,
           set_column |-> 5, negate_stmt |-> 6, set_basic_block |-> 7,
           const_add_pc |-> 8, fixed_advance_pc |-> 9, set_prologue_end |-> 10,
           set_epilogue_begin |-> 11, set_isa |-> 12]

\* the extended opcodes with an empty vendor range
DW_LNE_NoUser == [end_sequence |-> 1, set_address |-> 2, define_file |-> 3,
                  set_discriminator |-> 4, lo_user |-> 256, hi_user |-> 255]

DW_LNE == [end_sequence |-> 1, set_address |-> 2, define_file |-> 3,
           set_discriminator |-> 4, lo_user |-> 128, hi_user |-> 255]

DW_LNCT == [path |-> 1, directory_index |-> 2, timestamp |-> 3, size |-> 4,
            MD5 |-> 5]

DW_FORM == [addr |-> 1, block2 |-> 3, block4 |-> 4, data2 |-> 5, data4 |-> 6,
            data8 |-> 7, string |-> 8, block |-> 9, block1 |-> 10, data1 |-> 11,
            flag |-> 12, sdata |-> 13, strp |-> 14, udata |-> 15,
            ref_addr |-> 16, ref1 |-> 17, ref2 |-> 18, ref4 |-> 19,
            ref8 |-> 20, ref_udata |-> 21, indirect |-> 22,
            sec_offset |-> 23, exprloc |-> 24, flag_present |-> 25,
            strx |-> 26, addrx |-> 27, ref_sup4 |-> 28, strp_sup |-> 29,
            data16 |-> 30, line_strp |-> 31, ref_sig8 |-> 32,
            implicit_const |-> 33, loclistx |-> 34, rnglistx |-> 35,
            ref_sup8 |-> 36, strx1 |-> 37, strx2 |-> 38, strx3 |-> 39,
            strx4 |-> 40, addrx1 |-> 41, addrx2 |-> 42, addrx3 |-> 43,
            addrx4 |-> 44]

(***************************************************************************)
(* Line table.  hdr holds what the constructor leaves fixed (the section   *)
(* and the header fields of line_table::impl); a table state t holds the   *)
(* bookkeeping that iteration updates: file_names, last_file_name_end and  *)
(* file_names_complete.  t.added is a history field: for every entry       *)
(* appended to file_names, the section offset at which its record ended    *)
(* (0 for the entries of the header).                                      *)
(***************************************************************************)
File(path, mtime, length) == [path |-> path, mtime |-> mtime, length |-> length]

NoFile == [path |-> <<>>, mtime |-> 0 - 1, length |-> 0 - 1]

\* reset as it was before file_index_base existed: the file register is
\* always set to 1
Reset_FileIndexOne(is_stmt, default_file_index) ==
    [address |-> 0, op_index |-> 0, file |-> NoFile,
     file_index |-> 1, line |-> 1, column |-> 0,
     is_stmt |-> is_stmt, basic_block |-> FALSE, end_sequence |-> FALSE,
     prologue_end |-> FALSE, epilogue_begin |-> FALSE, isa |-> 0,
     discriminator |-> 0]

\* line_table::entry::reset
Reset(is_stmt, default_file_index) ==
    [address |-> 0, op_index |-> 0, file |-> NoFile,
     file_index |-> default_file_index, line |-> 1, column |-> 0,
     is_stmt |-> is_stmt, basic_block |-> FALSE, end_sequence |-> FALSE,
     prologue_end |-> FALSE, epilogue_begin |-> FALSE, isa |-> 0,
     discriminator |-> 0]

Slash == 47

\* the outcome of reading a file entry: the table state, the cursor and the
\* error raised
FE(t, pos, err) == [t |-> t, pos |-> pos, err |-> err]

\* line_table::impl::add_file_entry; off is the history field of the entry
add_file_entry(m, t, file_name, dir_index, mtime, length, off) ==
    LET push(path) == [t EXCEPT !.file_names = Append(@, File(path, mtime, length)),
                                !.added = Append(@, off)]
    IN IF file_name = <<>> THEN [t |-> t, err |-> "format_error"]
       ELSE IF file_name[1] = Slash THEN [t |-> push(file_name), err |-> "none"]
       ELSE IF dir_index < Len(m.include_directories)
            THEN [t |-> push(m.include_directories[dir_index + 1] \o file_name),
                  err |-> "none"]
       ELSE IF dir_index = 0 /\ m.version < 5 /\ m.comp_dir # <<>>
            THEN [t |-> push(m.comp_dir \o file_name), err |-> "none"]
       ELSE [t |-> t, err |-> "format_error"]

\* a record that is taken for one not yet processed wherever it ends
AlreadyProcessed_Never(t, entry_end) == FALSE

\* "Have we already processed this file entry?": the record that ends at
\* entry_end does not reach past last_file_name_end
AlreadyProcessed(t, entry_end) == entry_end <= t.last_file_name_end

\* line_table::impl::read_string_from_section: the string at offset off of
\* .debug_line_str or .debug_str
read_string_from_section(m, form, off) ==
    LET s == IF form = DW_FORM.line_strp THEN m.line_str ELSE m.str
    IN IF off > Len(s) THEN Rd(FALSE, <<>>, off) ELSE CString(s, off)

\* line_table::impl::read_form_string; pos of the result is the cursor in sec
read_form_string(m, pos, form) ==
    IF form = DW_FORM.string THEN CString(m.sec, pos)
    ELSE IF form \in {DW_FORM.line_strp, DW_FORM.strp}
    THEN LET o == Offset(m.sec, pos, FALSE)
         IN IF ~o.ok THEN Rd(FALSE, <<>>, pos)
            ELSE LET r == read_string_from_section(m, form, o.val)
                 IN Rd(r.ok, r.val, o.pos)
    ELSE Rd(FALSE, <<>>, pos)

\* line_table::impl::read_form_unsigned
read_form_unsigned(m, pos, form) ==
    IF form = DW_FORM.data1 THEN Fixed(m.sec, pos, 1)
    ELSE IF form = DW_FORM.data2 THEN Fixed(m.sec, pos, 2)
    ELSE IF form = DW_FORM.data4 THEN Fixed(m.sec, pos, 4)
    ELSE IF form = DW_FORM.data8 THEN Fixed(m.sec, pos, 8)
    ELSE IF form = DW_FORM.udata THEN Uleb128(m.sec, pos)
    ELSE IF form = DW_FORM.sdata THEN Sleb128(m.sec, pos)
    ELSE Rd(FALSE, 0, pos)

\* cursor::skip_form, for the forms a file entry format may name
skip_form(m, pos, form) ==
    IF form = DW_FORM.data1 THEN Fixed(m.sec, pos, 1)
    ELSE IF form = DW_FORM.data2 THEN Fixed(m.sec, pos, 2)
    ELSE IF form = DW_FORM.data4 THEN Fixed(m.sec, pos, 4)
    ELSE IF form = DW_FORM.data8 THEN Fixed(m.sec, pos, 8)
    ELSE IF form = DW_FORM.data16
         THEN (IF pos + 16 > Len(m.sec) THEN Rd(FALSE, 0, pos) ELSE Rd(TRUE, 0, pos + 16))
    ELSE IF form \in {DW_FORM.udata, DW_FORM.sdata} THEN Uleb128(m.sec, pos)
    ELSE IF form = DW_FORM.string THEN CString(m.sec, pos)
    ELSE IF form \in {DW_FORM.line_strp, DW_FORM.strp} THEN Offset(m.sec, pos, FALSE)
    ELSE Rd(FALSE, 0, pos)

\* the loop over file_entry_formats of read_file_entry_v5, from format k on;
\* f holds file_name, dir_index, mtime and length as read so far
RECURSIVE read_v5_fields(_, _, _, _)
read_v5_fields(m, k, pos, f) ==
    IF k > Len(m.file_entry_formats) THEN [ok |-> TRUE, pos |-> pos, f |-> f]
    ELSE LET fmt == m.file_entry_formats[k]
             store(val) ==
                  IF fmt.content = DW_LNCT.path THEN [f EXCEPT !.file_name = val]
                  ELSE IF fmt.content = DW_LNCT.directory_index
                       THEN [f EXCEPT !.dir_index = val]
                  ELSE IF fmt.content = DW_LNCT.timestamp THEN [f EXCEPT !.mtime = val]
                  ELSE IF fmt.content = DW_LNCT.size THEN [f EXCEPT !.length = val]
                  ELSE f
             \* the rest of the loop, field k having been read as r
             next(r) == IF ~r.ok THEN [ok |-> FALSE, pos |-> pos, f |-> f]
                        ELSE read_v5_fields(m, k + 1, r.pos, store(r.val))
         IN next(IF fmt.content = DW_LNCT.path THEN read_form_string(m, pos, fmt.form)
                 ELSE IF fmt.content \in {DW_LNCT.directory_index,
                                          DW_LNCT.timestamp, DW_LNCT.size}
                      THEN read_form_unsigned(m, pos, fmt.form)
                 ELSE skip_form(m, pos, fmt.form))

\* line_table::impl::read_file_entry_v5
read_file_entry_v5(m, t, pos) ==
    IF m.file_entry_formats = <<>> THEN FE(t, pos, "format_error")
    ELSE LET added(r, a) == FE(a.t, r.pos, a.err)
             \* after the loop over the formats, which read the fields r.f
             \* and left the cursor at r.pos
             fields(r) ==
                 LET entry_end == r.pos
                     t1 == [t EXCEPT !.last_file_name_end = entry_end]
                 IN IF ~r.ok THEN FE(t, pos, "format_error")
                    ELSE IF AlreadyProcessed(t, entry_end) THEN FE(t, r.pos, "none")
                    ELSE IF r.f.file_name = <<>> THEN FE(t1, r.pos, "none")
                    ELSE added(r, add_file_entry(m, t1, r.f.file_name, r.f.dir_index,
                                                 r.f.mtime, r.f.length, entry_end))
         IN fields(read_v5_fields(m, 1, pos,
                      [file_name |-> <<>>, dir_index |-> 0, mtime |-> 0, length |-> 0]))

\* read_file_entry without the test "have we already processed this file
\* entry?"
read_file_entry_NoCheck(m, t, pos) ==
    IF m.version >= 5 THEN read_file_entry_v5(m, t, pos)
    ELSE LET n == CString(m.sec, pos)
             d == Uleb128(m.sec, n.pos)
             mt == Uleb128(m.sec, d.pos)
             ln == Uleb128(m.sec, mt.pos)
             t1 == [t EXCEPT !.last_file_name_end = ln.pos]
         IN IF ~n.ok \/ ~d.ok \/ ~mt.ok \/ ~ln.ok THEN FE(t, pos, "format_error")
            ELSE IF n.val = <<>> THEN FE(t1, ln.pos, "none")
            ELSE LET a == add_file_entry(m, t1, n.val, d.val, mt.val, ln.val, ln.pos)
                 IN FE(a.t, ln.pos, a.err)

\* line_table::impl::read_file_entry with in_header = false (the header's
\* entries are read by the constructor)
read_file_entry(m, t, pos) ==
    IF m.version >= 5 THEN read_file_entry_v5(m, t, pos)
    ELSE LET n == CString(m.sec, pos)
             d == Uleb128(m.sec, n.pos)
             mt == Uleb128(m.sec, d.pos)
             ln == Uleb128(m.sec, mt.pos)
             t1 == [t EXCEPT !.last_file_name_end = ln.pos]
         IN IF ~n.ok \/ ~d.ok \/ ~mt.ok \/ ~ln.ok THEN FE(t, pos, "format_error")
            \* Have we already processed this file entry?
            ELSE IF AlreadyProcessed(t, ln.pos) THEN FE(t, ln.pos, "none")
            ELSE IF n.val = <<>> THEN FE(t1, ln.pos, "none")
            ELSE LET a == add_file_entry(m, t1, n.val, d.val, mt.val, ln.val, ln.pos)
                 IN FE(a.t, ln.pos, a.err)

(***************************************************************************)
(* The constructor: line_table::line_table parses the header of the unit   *)
(* at the start of sec.  Its outcome holds the error raised, the stage of   *)
(* the header at which it was raised (a history field), the impl m and the *)
(* table state t.  m.out_of_bounds is a history field: the accesses the    *)
(* constructor made outside an array, each as <<array, index>>.            *)
(***************************************************************************)
Made(err, stage, m, t) == [err |-> err, stage |-> stage, m |-> m, t |-> t]

\* static const int opcode_lengths[]; entry i is OpcodeLengths[i + 1]
OpcodeLengths == <<0, 0, 1, 1, 1, 1, 0, 0, 0, 1, 0, 0, 1>>

\* What a build does where the language defines nothing: beyond is the
\* number that a read of opcode_lengths[i] yields for i >= 13 (the array
\* has 13 entries), empty_write is what the write of
\* standard_opcode_lengths[0] does to a vector resized to opcode_base = 0.
Builds == [beyond : {0, 1}, empty_write : {"crash", "silent"}]

\* the implicit file of the unit: cu_name, relative to comp_dir or absolute
CuFile(comp_dir, cu_name) ==
    File(IF cu_name # <<>> /\ cu_name[1] = Slash THEN cu_name ELSE comp_dir \o cu_name,
         0, 0)

\* "while (m->read_file_entry(&cur, true));": the file entries of a header
\* before DWARF 5
RECURSIVE HeaderFiles(_, _, _)
HeaderFiles(m, t, pos) ==
    LET failed == Made("format_error", "files", m, t)
        added(a, end) == IF a.err # "none" THEN Made(a.err, "files", m, a.t)
                         ELSE HeaderFiles(m, a.t, end)
        entry(n, d, mt, ln) ==
            IF ~d.ok \/ ~mt.ok \/ ~ln.ok THEN failed
            ELSE IF ln.pos <= t.last_file_name_end THEN HeaderFiles(m, t, ln.pos)
            ELSE added(add_file_entry(m, [t EXCEPT !.last_file_name_end = ln.pos],
                                      n.val, d.val, mt.val, ln.val, 0), ln.pos)
        second(d) == Uleb128(m.sec, d.pos)
        named(n) ==
            IF ~n.ok THEN failed
            ELSE IF n.val = <<>> THEN Made("none", "done", m, t)
            ELSE entry(n, Uleb128(m.sec, n.pos), second(Uleb128(m.sec, n.pos)),
                       second(second(Uleb128(m.sec, n.pos))))
    IN named(CString(m.sec, pos))

\* line_table::impl::read_entry_formats, count formats being left to read
RECURSIVE read_entry_formats(_, _, _, _)
read_entry_formats(sec, pos, count, formats) ==
    LET pair(content, form) ==
            IF ~content.ok \/ ~form.ok THEN [ok |-> FALSE, pos |-> pos, formats |-> formats]
            ELSE read_entry_formats(sec, form.pos, count - 1,
                    Append(formats, [content |-> content.val, form |-> form.val]))
        after(content) == Uleb128(sec, content.pos)
    IN IF count = 0 THEN [ok |-> TRUE, pos |-> pos, formats |-> formats]
       ELSE pair(Uleb128(sec, pos), after(Uleb128(sec, pos)))

\* the loop of read_v5_file_table over the count entries left
RECURSIVE V5Files(_, _, _, _, _)
V5Files(m, t, pos, count, cu_name) ==
    LET failed == Made("format_error", "files", m, t)
        added(a, end) == IF a.err # "none" THEN Made(a.err, "files", m, a.t)
                         ELSE V5Files(m, a.t, end, count - 1, cu_name)
        fields(r) ==
            IF ~r.ok THEN failed
            ELSE IF r.f.file_name = <<>> THEN V5Files(m, t, r.pos, count - 1, cu_name)
            ELSE added(add_file_entry(m, t, r.f.file_name, r.f.dir_index, r.f.mtime,
                                      r.f.length, 0), r.pos)
    IN IF count = 0
       THEN Made("none", "done", m,
                 IF t.file_names = <<>>
                 THEN [t EXCEPT !.file_names = <<CuFile(m.comp_dir, cu_name)>>,
                                !.added = <<0>>]
                 ELSE t)
       ELSE fields(read_v5_fields(m, 1, pos,
                      [file_name |-> <<>>, dir_index |-> 0, mtime |-> 0, length |-> 0]))

\* line_table::impl::read_v5_file_table and the file of the unit
read_v5_file_table(m, t, pos, cu_name) ==
    LET counted(mf, n) ==
            IF ~n.ok THEN Made("format_error", "files", mf, t)
            ELSE V5Files(mf, t, n.pos, n.val, cu_name)
        formats(f) ==
            IF ~f.ok THEN Made("format_error", "files", m, t)
            ELSE counted([m EXCEPT !.file_entry_formats = f.formats], Uleb128(m.sec, f.pos))
        count(n) == IF ~n.ok THEN [ok |-> FALSE, pos |-> pos, formats |-> <<>>]
                    ELSE read_entry_formats(m.sec, n.pos, n.val, <<>>)
    IN formats(count(Uleb128(m.sec, pos)))

\* the file name list of the constructor
FileNameList(m, t, pos, cu_name) ==
    IF m.version >= 5 THEN read_v5_file_table(m, t, pos, cu_name)
    ELSE HeaderFiles(m, [t EXCEPT !.file_names = <<CuFile(m.comp_dir, cu_name)>>,
                                  !.added = <<0>>], pos)

\* add_include_directory without the prefix comp_dir
add_include_directory_NoPrefix(m, dir) ==
    [m EXCEPT !.include_directories =
         Append(@, IF dir # <<>> /\ Last(dir) # Slash THEN Append(dir, Slash) ELSE dir)]

\* line_table::impl::add_include_directory
add_include_directory(m, dir) ==
    LET slashed == IF dir # <<>> /\ Last(dir) # Slash THEN Append(dir, Slash) ELSE dir
        prefixed == IF slashed # <<>> /\ slashed[1] # Slash /\ m.comp_dir # <<>>
                    THEN m.comp_dir \o slashed ELSE slashed
        resolved == IF prefixed = <<>> THEN m.comp_dir ELSE prefixed
    IN [m EXCEPT !.include_directories = Append(@, resolved)]

\* the path of one record of the DWARF 5 directory table: the loop over the
\* formats, from format k on
RECURSIVE V5DirPath(_, _, _, _, _)
V5DirPath(m, formats, k, pos, path) ==
    LET next(r, keep) == IF ~r.ok THEN [ok |-> FALSE, pos |-> pos, path |-> path]
                         ELSE V5DirPath(m, formats, k + 1, r.pos,
                                        IF keep THEN r.val ELSE path)
    IN IF k > Len(formats) THEN [ok |-> TRUE, pos |-> pos, path |-> path]
       ELSE IF formats[k].content = DW_LNCT.path
            THEN next(read_form_string(m, pos, formats[k].form), TRUE)
            ELSE next(skip_form(m, pos, formats[k].form), FALSE)

\* the loop of read_v5_directory_table over the count records left
RECURSIVE V5Dirs(_, _, _, _, _, _)
V5Dirs(m, t, formats, pos, count, cu_name) ==
    LET read(r) == IF ~r.ok THEN Made("format_error", "directories", m, t)
                   ELSE V5Dirs(add_include_directory(m, r.path), t, formats, r.pos,
                               count - 1, cu_name)
    IN IF count = 0 THEN FileNameList(m, t, pos, cu_name)
       ELSE read(V5DirPath(m, formats, 1, pos, <<>>))

\* line_table::impl::read_v5_directory_table, then the file name list
read_v5_directory_table(m, t, pos, cu_name) ==
    LET counted(f, n) ==
            IF ~n.ok THEN Made("format_error", "directories", m, t)
            ELSE V5Dirs(m, t, f.formats, n.pos, n.val, cu_name)
        formats(f) ==
            IF ~f.ok THEN Made("format_error", "directories", m, t)
            ELSE counted(f, Uleb128(m.sec, f.pos))
        count(n) == IF ~n.ok THEN [ok |-> FALSE, pos |-> pos, formats |-> <<>>]
                    ELSE read_entry_formats(m.sec, n.pos, n.val, <<>>)
    IN formats(count(Uleb128(m.sec, pos)))

\* the include directories of a header before DWARF 5, then the file name
\* list
RECURSIVE IncludeDirs(_, _, _, _)
IncludeDirs(m, t, pos, cu_name) ==
    LET slashed(incdir) == IF Last(incdir) # Slash THEN Append(incdir, Slash) ELSE incdir
        pushed(incdir) ==
            [m EXCEPT !.include_directories =
                 Append(@, IF incdir[1] = Slash THEN incdir ELSE m.comp_dir \o incdir)]
        read(s) == IF ~s.ok THEN Made("format_error", "directories", m, t)
                   ELSE IF s.val = <<>> THEN FileNameList(m, t, s.pos, cu_name)
                   ELSE IncludeDirs(pushed(slashed(s.val)), t, s.pos, cu_name)
    IN read(CString(m.sec, pos))

\* the include directories list of the constructor
IncludeDirectoriesList(m, t, pos, cu_name) ==
    IF m.version >= 5
    THEN read_v5_directory_table([m EXCEPT !.include_directories = <<>>], t, pos, cu_name)
    ELSE IncludeDirs([m EXCEPT !.include_directories = <<m.comp_dir>>], t, pos, cu_name)

\* the opcode length table of the constructor, from opcode i on
RECURSIVE OpcodeLengthTable(_, _, _, _, _, _)
OpcodeLengthTable(m, t, pos, i, cu_name, build) ==
    LET expected == IF i < Len(OpcodeLengths) THEN OpcodeLengths[i + 1] ELSE build.beyond
        \* "if (length != opcode_lengths[i])"
        compared(mm, length) ==
            IF ~length.ok THEN Made("format_error", "opcode_lengths", m, t)
            ELSE IF length.val # expected THEN Made("format_error", "opcode_lengths", mm, t)
            ELSE OpcodeLengthTable(
                     [mm EXCEPT !.standard_opcode_lengths = Append(@, length.val)],
                     t, length.pos, i + 1, cu_name, build)
    IN IF i >= m.opcode_base THEN IncludeDirectoriesList(m, t, pos, cu_name)
       ELSE compared(IF i < Len(OpcodeLengths) THEN m
                     ELSE [m EXCEPT !.out_of_bounds = @ \cup {<<"opcode_lengths", i>>}],
                     Fixed(m.sec, pos, 1))

\* the versions the constructor accepts, and one that stops at DWARF 4
VersionKnown_UpTo4(version) == version >= 2 /\ version <= 4

VersionKnown(version) == version >= 2 /\ version <= 5

\* file_index_base, and one that is 1 in every version
FileIndexBase_One(version) == 1

FileIndexBase(version) == IF version >= 5 THEN 0 ELSE 1

\* cursor::skip_initial_length: 4 bytes, or 12 when they are ff ff ff ff
\* (64-bit DWARF)
InitialLength(sec) ==
    IF Len(sec) < 4 THEN Rd(FALSE, FALSE, 0)
    ELSE IF SubSeq(sec, 1, 4) = <<255, 255, 255, 255>>
         THEN (IF Len(sec) < 12 THEN Rd(FALSE, TRUE, 0) ELSE Rd(TRUE, TRUE, 12))
    ELSE Rd(TRUE, FALSE, 4)

\* line_table::line_table(sec, offset, cu_addr_size, cu_comp_dir, cu_name,
\* dw), sec being the section from offset on and dw the string sections
line_table(sec, cu_addr_size, cu_comp_dir, cu_name, dw, build) ==
    LET comp_dir == IF cu_comp_dir = <<>> \/ Last(cu_comp_dir) = Slash THEN cu_comp_dir
                    ELSE Append(cu_comp_dir, Slash)
        m0 == [version |-> 0, sec |-> sec, program_offset |-> 0,
               addr_size |-> cu_addr_size, minimum_instruction_length |-> 0,
               maximum_operations_per_instruction |-> 0, default_is_stmt |-> FALSE,
               line_base |-> 0, line_range |-> 0, opcode_base |-> 0,
               file_index_base |-> 1, comp_dir |-> comp_dir,
               standard_opcode_lengths |-> <<>>, include_directories |-> <<>>,
               file_entry_formats |-> <<>>, line_str |-> dw.line_str, str |-> dw.str,
               out_of_bounds |-> {}]
        t0 == [file_names |-> <<>>, added |-> <<>>, last_file_name_end |-> 0,
               file_names_complete |-> FALSE]
        failed(stage, m) == Made("format_error", stage, m, t0)
        \* standard_opcode_lengths.resize(opcode_base), [0] = 0, and the rest
        written(m, pos) ==
            IF m.opcode_base = 0 /\ build.empty_write = "crash"
            THEN Made("crash", "opcode_lengths", m, t0)
            ELSE OpcodeLengthTable(
                     [m EXCEPT !.standard_opcode_lengths =
                                   IF m.opcode_base = 0 THEN <<>> ELSE <<0>>],
                     t0, pos, 1, cu_name, build)
        lengths(m, pos) ==
            written(IF m.opcode_base > 0 THEN m
                    ELSE [m EXCEPT !.out_of_bounds = {<<"standard_opcode_lengths", 0>>}],
                    pos)
        \* default_is_stmt, line_base, line_range, opcode_base
        basic(m, d, lb, lr, ob) ==
            IF ~d.ok \/ ~lb.ok \/ ~lr.ok THEN failed("truncated", m)
            ELSE IF lr.val = 0 THEN failed("line_range", m)
            ELSE IF ~ob.ok THEN failed("truncated", m)
            ELSE lengths([m EXCEPT !.default_is_stmt = d.val # 0, !.line_base = lb.val,
                                   !.line_range = lr.val, !.opcode_base = ob.val],
                         ob.pos)
        flags(m, p) ==
            basic(m, Fixed(sec, p, 1), SFixed(sec, p + 1, 1), Fixed(sec, p + 2, 1),
                  Fixed(sec, p + 3, 1))
        \* maximum_operations_per_instruction
        ops(m, mo) ==
            IF ~mo.ok THEN failed("truncated", m)
            ELSE IF mo.val = 0 THEN failed("max_ops", m)
            ELSE flags([m EXCEPT !.maximum_operations_per_instruction = mo.val], mo.pos)
        minlen(m, ml) ==
            IF ~ml.ok THEN failed("truncated", m)
            ELSE ops([m EXCEPT !.minimum_instruction_length = ml.val],
                     IF m.version >= 4 THEN Fixed(sec, ml.pos, 1) ELSE Rd(TRUE, 1, ml.pos))
        \* header_length
        length(m, hl) ==
            IF ~hl.ok THEN failed("truncated", m)
            ELSE minlen([m EXCEPT !.program_offset = hl.pos + hl.val],
                        Fixed(sec, hl.pos, 1))
        \* address_size and segment_selector_size of DWARF 5
        sized(m, a, seg, fmt64) ==
            IF ~a.ok \/ ~seg.ok THEN failed("truncated", m)
            ELSE length([m EXCEPT !.addr_size = a.val], Offset(sec, seg.pos, fmt64))
        versioned(v, fmt64) ==
            IF ~v.ok THEN failed("truncated", m0)
            ELSE IF ~VersionKnown(v.val)
                 THEN failed("version", [m0 EXCEPT !.version = v.val])
            ELSE IF v.val >= 5
                 THEN sized([m0 EXCEPT !.version = v.val,
                                       !.file_index_base = FileIndexBase(v.val)],
                            Fixed(sec, v.pos, 1), Fixed(sec, v.pos + 1, 1), fmt64)
            ELSE length([m0 EXCEPT !.version = v.val,
                                   !.file_index_base = FileIndexBase(v.val)],
                        Offset(sec, v.pos, fmt64))
        started(il) == IF ~il.ok THEN failed("truncated", m0)
                       ELSE versioned(Fixed(sec, il.pos, 2), il.val)
    IN started(InitialLength(sec))

(***************************************************************************)
(* The line-state machine.  An iterator state holds the working registers  *)
(* regs, the committed row entry and the cursor position pos.              *)
(***************************************************************************)
\* what step leaves behind: table state, registers, committed row, cursor,
\* the error it raised and its return value (did it emit a row?)
St(t, regs, entry, pos, err, out) ==
    [t |-> t, regs |-> regs, entry |-> entry, pos |-> pos, err |-> err, out |-> out]

\* a row emission that clears nothing
ClearTransient_None(regs) == regs

\* the four registers a row emission clears
ClearTransient(regs) ==
    [regs EXCEPT !.basic_block = FALSE, !.prologue_end = FALSE,
                 !.epilogue_begin = FALSE, !.discriminator = 0]

\* a special opcode whose line advance is the whole adjusted opcode, not its
\* remainder by line_range
StepSpecial_NoRemainder(m, t, regs, entry, pos, opcode) ==
    LET adjusted_opcode == (opcode - m.opcode_base) % 256
        op_advance == adjusted_opcode \div m.line_range
        line_inc == m.line_base + adjusted_opcode
        r == [regs EXCEPT
                !.line = @ + line_inc,
                !.address = @ + m.minimum_instruction_length *
                    ((regs.op_index + op_advance)
                     \div m.maximum_operations_per_instruction),
                !.op_index = (regs.op_index + op_advance)
                     % m.maximum_operations_per_instruction]
    IN St(t, ClearTransient(r), r, pos, "none", TRUE)

\* step, special opcode (opcode >= opcode_base)
StepSpecial(m, t, regs, entry, pos, opcode) ==
    LET adjusted_opcode == (opcode - m.opcode_base) % 256
        op_advance == adjusted_opcode \div m.line_range
        line_inc == m.line_base + (adjusted_opcode % m.line_range)
        r == [regs EXCEPT
                !.line = @ + line_inc,
                !.address = @ + m.minimum_instruction_length *
                    ((regs.op_index + op_advance)
                     \div m.maximum_operations_per_instruction),
                !.op_index = (regs.op_index + op_advance)
                     % m.maximum_operations_per_instruction]
    IN St(t, ClearTransient(r), r, pos, "none", TRUE)

\* an advance that moves the line with the address
AdvancePc_Line(m, regs, uarg) ==
    [regs EXCEPT
        !.line = @ + uarg,
        !.address = @ + m.minimum_instruction_length *
            ((regs.op_index + uarg) \div m.maximum_operations_per_instruction),
        !.op_index = (regs.op_index + uarg) % m.maximum_operations_per_instruction]

\* the advance_pc label of step: opcode advance as for special opcodes
AdvancePc(m, regs, uarg) ==
    [regs EXCEPT
        !.address = @ + m.minimum_instruction_length *
            ((regs.op_index + uarg) \div m.maximum_operations_per_instruction),
        !.op_index = (regs.op_index + uarg) % m.maximum_operations_per_instruction]

\* step, standard opcode (0 < opcode < opcode_base)
StepStandard(m, t, regs, entry, pos, opcode) ==
    LET u == Uleb128(m.sec, pos)
        s == Sleb128(m.sec, pos)
        h == Fixed(m.sec, pos, 2)
        fail == St(t, regs, entry, pos, "format_error", FALSE)
        arg(r, new) == IF r.ok THEN St(t, new, entry, r.pos, "none", FALSE) ELSE fail
    IN CASE opcode = DW_LNS.copy ->
              St(t, ClearTransient(regs), regs, pos, "none", TRUE)
         [] opcode = DW_LNS.advance_pc -> arg(u, AdvancePc(m, regs, u.val))
         [] opcode = DW_LNS.advance_line -> arg(s, [regs EXCEPT !.line = @ + s.val])
         [] opcode = DW_LNS.set_file -> arg(u, [regs EXCEPT !.file_index = u.val])
         [] opcode = DW_LNS.set_column -> arg(u, [regs EXCEPT !.column = u.val])
         [] opcode = DW_LNS.negate_stmt ->
              St(t, [regs EXCEPT !.is_stmt = ~@], entry, pos, "none", FALSE)
         [] opcode = DW_LNS.set_basic_block ->
              St(t, [regs EXCEPT !.basic_block = TRUE], entry, pos, "none", FALSE)
         [] opcode = DW_LNS.const_add_pc ->
              St(t, AdvancePc(m, regs, (255 - m.opcode_base) \div m.line_range),
                 entry, pos, "none", FALSE)
         [] opcode = DW_LNS.fixed_advance_pc ->
              arg(h, [regs EXCEPT !.address = @ + h.val, !.op_index = 0])
         [] opcode = DW_LNS.set_prologue_end ->
              St(t, [regs EXCEPT !.prologue_end = TRUE], entry, pos, "none", FALSE)
         [] opcode = DW_LNS.set_epilogue_begin ->
              St(t, [regs EXCEPT !.epilogue_begin = TRUE], entry, pos, "none", FALSE)
         [] opcode = DW_LNS.set_isa -> arg(u, [regs EXCEPT !.isa = u.val])
         [] OTHER -> fail

\* step, extended opcode (opcode = 0).  The statement "cur += end - ..."
\* of the code advances the local pointer cur, not the cursor it points to:
\* the cursor stays where the operands left it.
StepExtended(m, t, regs, entry, pos) ==
    LET length == Uleb128(m.sec, pos)
        end == length.pos + length.val
        sub == Fixed(m.sec, length.pos, 1)
        opcode == sub.val
        fail(tt, rr, ee) == St(tt, rr, ee, pos, "format_error", FALSE)
        \* the check after the switch
        done(tt, rr, ee, p) ==
            IF p > end THEN fail(tt, rr, ee)
            ELSE St(tt, rr, ee, p, "none", opcode = DW_LNE.end_sequence)
        a == Address(m.sec, sub.pos, m.addr_size)
        u == Uleb128(m.sec, sub.pos)
        file_read(fe) ==
            IF fe.err # "none" THEN St(fe.t, regs, entry, pos, fe.err, FALSE)
            ELSE done(fe.t, regs, entry, fe.pos)
    IN IF ~length.ok \/ ~sub.ok THEN fail(t, regs, entry)
       ELSE CASE opcode = DW_LNE.end_sequence ->
                   done(t, Reset(m.default_is_stmt, m.file_index_base),
                        [regs EXCEPT !.end_sequence = TRUE], sub.pos)
              [] opcode = DW_LNE.set_address ->
                   IF ~a.ok THEN fail(t, regs, entry)
                   ELSE done(t, [regs EXCEPT !.address = a.val, !.op_index = 0],
                             entry, a.pos)
              [] opcode = DW_LNE.define_file ->
                   file_read(read_file_entry(m, t, sub.pos))
              [] opcode = DW_LNE.set_discriminator ->
                   IF ~u.ok THEN fail(t, regs, entry)
                   ELSE done(t, [regs EXCEPT !.discriminator = u.val], entry, u.pos)
              [] opcode >= DW_LNE.lo_user /\ opcode <= DW_LNE.hi_user ->
                   St(t, regs, entry, pos, "runtime_error", FALSE)
              [] OTHER -> fail(t, regs, entry)

\* line_table::iterator::step
step(m, t, regs, entry, pos) ==
    LET o == Fixed(m.sec, pos, 1)
    IN IF ~o.ok THEN St(t, regs, entry, pos, "format_error", FALSE)
       ELSE IF o.val >= m.opcode_base THEN StepSpecial(m, t, regs, entry, o.pos, o.val)
       ELSE IF o.val # 0 THEN StepStandard(m, t, regs, entry, o.pos, o.val)
       ELSE StepExtended(m, t, regs, entry, o.pos)

\* the while loop without its test of output: it executes opcodes until the
\* end of the stream
RECURSIVE RunOps_ToEnd(_, _, _)
RunOps_ToEnd(m, w, stepped) ==
    IF CurEnd(m.sec, w.pos) \/ w.err # "none"
    THEN [w |-> w, stepped |-> stepped]
    ELSE LET stepped_to(s) ==
                 RunOps_ToEnd(m, [t |-> s.t, regs |-> s.regs, entry |-> s.entry,
                                  pos |-> s.pos, err |-> s.err, out |-> s.out,
                                  pre |-> w.regs, start |-> w.start, at |-> w.pos,
                                  from |-> w.from], TRUE)
         IN stepped_to(step(m, w.t, w.regs, w.entry, w.pos))

\* the while loop of operator++: execute opcodes until the end of the
\* stream or until one emits a row.  History fields: from and start are the
\* cursor and the registers when the call began, at and pre the cursor and
\* the registers before the opcode executed last.
RECURSIVE RunOps(_, _, _)
RunOps(m, w, stepped) ==
    IF CurEnd(m.sec, w.pos) \/ w.out \/ w.err # "none"
    THEN [w |-> w, stepped |-> stepped]
    ELSE LET stepped_to(s) ==
                 RunOps(m, [t |-> s.t, regs |-> s.regs, entry |-> s.entry,
                            pos |-> s.pos, err |-> s.err, out |-> s.out,
                            pre |-> w.regs, start |-> w.start, at |-> w.pos,
                            from |-> w.from], TRUE)
         IN stepped_to(step(m, w.t, w.regs, w.entry, w.pos))

\* the file resolution that takes the first entry of the table whatever
\* file_index is
ResolveFile_First(file_names, entry) ==
    IF entry.file_index < Len(file_names)
    THEN [ok |-> TRUE, entry |-> [entry EXCEPT !.file = file_names[1]]]
    ELSE [ok |-> FALSE, entry |-> entry]

\* the file resolution without its bounds check: a row whose file_index is
\* not in the table yet keeps a null file
ResolveFile_NoThrow(file_names, entry) ==
    IF entry.file_index < Len(file_names)
    THEN [ok |-> TRUE, entry |-> [entry EXCEPT !.file = file_names[entry.file_index + 1]]]
    ELSE [ok |-> TRUE, entry |-> entry]

\* the file resolution of operator++: the entry of the file table at
\* file_index.  The code stores a pointer into the vector file_names, which
\* a later append may move; a row's file is held here as the entry the
\* pointer designates when the row is emitted, and the properties below
\* read it from the rows recorded at emission, never through an iterator
\* that was resolved before the table grew.
ResolveFile(file_names, entry) ==
    IF entry.file_index < Len(file_names)
    THEN [ok |-> TRUE, entry |-> [entry EXCEPT !.file = file_names[entry.file_index + 1]]]
    ELSE [ok |-> FALSE, entry |-> entry]

\* a test that takes every call that executed an opcode for one that ended
\* the program
ProgramEnded_AnyCall(m, w, stepped) == stepped

\* "if (stepped && cur.end())": all file names must be known now
ProgramEnded(m, w, stepped) == stepped /\ CurEnd(m.sec, w.pos)

\* line_table::iterator::operator++ on the iterator state it; the result is
\* the table state, the iterator state and the error raised.  An iterator
\* that raised an error keeps its position (pos is assigned last).
PlusPlus(m, t, it) ==
    LET mk(w, e, p, err) ==
            [regs |-> w.regs, entry |-> e, pos |-> p, err |-> err,
             out |-> w.out /\ err = "none", pre |-> w.pre,
             start |-> w.start, at |-> w.at, from |-> w.from]
        \* the file resolution, f being the entry looked up
        resolved(w, t1, f) ==
            IF w.out /\ ~f.ok THEN [t |-> t1, it |-> mk(w, w.entry, it.pos, "format_error")]
            ELSE [t |-> t1, it |-> mk(w, IF w.out THEN f.entry ELSE w.entry, w.pos, "none")]
        completed(w, t1) == resolved(w, t1, ResolveFile(t1.file_names, w.entry))
        \* after the while loop, which left the state w
        looped(w, stepped) ==
            IF w.err # "none" THEN [t |-> w.t, it |-> mk(w, w.entry, it.pos, w.err)]
            ELSE IF stepped /\ ~w.out
                 THEN [t |-> w.t, it |-> mk(w, w.entry, it.pos, "format_error")]
            ELSE completed(w, IF ProgramEnded(m, w, stepped)
                              THEN [w.t EXCEPT !.file_names_complete = TRUE]
                              ELSE w.t)
        ran(r) == looped(r.w, r.stepped)
    IN ran(RunOps(m, [t |-> t, regs |-> it.regs, entry |-> it.entry, pos |-> it.pos,
                      err |-> "none", out |-> FALSE, pre |-> it.regs,
                      start |-> it.regs, at |-> it.pos, from |-> it.pos], FALSE))

\* line_table::iterator::iterator(table, pos).  The committed row of a new
\* iterator holds nothing the code defines until a row is emitted; it is
\* given the reset registers here and is read only after an emission.
NewIterator(m, t, pos) ==
    LET r0 == Reset(m.default_is_stmt, m.file_index_base)
    IN PlusPlus(m, t, [regs |-> r0, entry |-> r0, pos |-> pos, err |-> "none",
                       out |-> FALSE, pre |-> r0, start |-> r0, at |-> pos,
                       from |-> pos])

\* line_table::begin
begin(m, t) == NewIterator(m, t, m.program_offset)

\* line_table::end
end(m, t) == NewIterator(m, t, Len(m.sec))

\* line_table::iterator::operator==
IterEq(a, b) == a.pos = b.pos

(***************************************************************************)
(* Whole-call operations of line_table                                     *)
(***************************************************************************)
\* a loop that stops at the first row
ForEach_FirstRow(m, t, it, e) == [t |-> t, it |-> it]

\* the loop "for (auto &ent : *this)": advance it until it equals e or an
\* error is raised
RECURSIVE ForEach(_, _, _, _)
ForEach(m, t, it, e) ==
    IF it.err # "none" \/ IterEq(it, e) THEN [t |-> t, it |-> it]
    ELSE LET advanced(r) == ForEach(m, r.t, r.it, e)
         IN advanced(PlusPlus(m, t, it))

\* "for (auto &ent : *this) (void)ent;": begin(), end(), and the loop
RangeFor(m, t) ==
    LET to(b, e) == IF e.it.err # "none" THEN e ELSE ForEach(m, e.t, b.it, e.it)
        from(b) == IF b.it.err # "none" THEN b ELSE to(b, end(m, b.t))
    IN from(begin(m, t))

\* get_file reporting an index that is out of range as a format_error
get_file_FormatError(m, t, index) ==
    LET res(tt, err, iterated) ==
            [t |-> tt, err |-> err, iterated |-> iterated,
             file |-> IF err = "none" THEN tt.file_names[index + 1] ELSE NoFile]
        \* after the forced iteration, which left r
        iterated(r) ==
            IF r.it.err # "none" THEN res(r.t, r.it.err, TRUE)
            ELSE IF index >= Len(r.t.file_names) THEN res(r.t, "format_error", TRUE)
            ELSE res(r.t, "none", TRUE)
    IN IF index >= Len(t.file_names)
       THEN IF ~t.file_names_complete
            THEN iterated(RangeFor(m, t))
            ELSE res(t, "format_error", FALSE)
       ELSE res(t, "none", FALSE)

\* line_table::get_file
get_file(m, t, index) ==
    LET res(tt, err, iterated) ==
            [t |-> tt, err |-> err, iterated |-> iterated,
             file |-> IF err = "none" THEN tt.file_names[index + 1] ELSE NoFile]
        \* after the forced iteration, which left r
        iterated(r) ==
            IF r.it.err # "none" THEN res(r.t, r.it.err, TRUE)
            ELSE IF index >= Len(r.t.file_names) THEN res(r.t, "out_of_range", TRUE)
            ELSE res(r.t, "none", TRUE)
    IN IF index >= Len(t.file_names)
       THEN IF ~t.file_names_complete
            THEN iterated(RangeFor(m, t))
            ELSE res(t, "out_of_range", FALSE)
       ELSE res(t, "none", FALSE)

\* the for loop of find_address; it has just been advanced from prev
RECURSIVE FindScan(_, _, _, _, _, _)
FindScan(m, t, prev, it, e, addr) ==
    IF it.err # "none" THEN [t |-> t, err |-> it.err, it |-> it]
    ELSE IF IterEq(it, e) THEN [t |-> t, err |-> "none", it |-> e]
    ELSE IF prev.entry.address <= addr /\ it.entry.address > addr
            /\ ~prev.entry.end_sequence
         THEN [t |-> t, err |-> "none", it |-> prev]
    ELSE LET advanced(r) == FindScan(m, r.t, it, r.it, e, addr)
         IN advanced(PlusPlus(m, t, it))

\* line_table::find_address
find_address(m, t, addr) ==
    LET \* "for (++it; ...": n is the first ++it
        scan(prev, e, n) == FindScan(m, n.t, prev.it, n.it, e.it, addr)
        \* prev = begin() and e = end() have been made
        made(prev, e) ==
            IF e.it.err # "none" THEN [t |-> e.t, err |-> e.it.err, it |-> e.it]
            ELSE IF IterEq(prev.it, e.it) THEN [t |-> e.t, err |-> "none", it |-> prev.it]
            ELSE scan(prev, e, PlusPlus(m, e.t, prev.it))
        begun(prev) ==
            IF prev.it.err # "none" THEN [t |-> prev.t, err |-> prev.it.err, it |-> prev.it]
            ELSE made(prev, end(m, prev.t))
    IN begun(begin(m, t))

(***************************************************************************)
(* Attribute values.  A unit c holds the bytes of its section slice        *)
(* (c.data) and its DWARF format; a value v holds form, typ, offset,       *)
(* has_implicit_const and implicit_const.  A projection returns the error  *)
(* it raised and the value it read.                                        *)
(***************************************************************************)
\* the semantic type attribute_spec gives a form, for an attribute whose
\* name does not decide it (a sec_offset is taken to be a line pointer)
TypeOfForm(form) ==
    IF form \in {DW_FORM.addr, DW_FORM.addrx, DW_FORM.addrx1, DW_FORM.addrx2,
                 DW_FORM.addrx3, DW_FORM.addrx4} THEN "address"
    ELSE IF form \in {DW_FORM.block, DW_FORM.block1, DW_FORM.block2, DW_FORM.block4}
         THEN "block"
    ELSE IF form \in {DW_FORM.data1, DW_FORM.data2, DW_FORM.data4, DW_FORM.data8,
                      DW_FORM.implicit_const} THEN "constant"
    ELSE IF form = DW_FORM.udata THEN "uconstant"
    ELSE IF form = DW_FORM.sdata THEN "sconstant"
    ELSE IF form = DW_FORM.exprloc THEN "exprloc"
    ELSE IF form \in {DW_FORM.flag, DW_FORM.flag_present} THEN "flag"
    ELSE IF form = DW_FORM.sec_offset THEN "line"
    ELSE IF form \in {DW_FORM.string, DW_FORM.strp, DW_FORM.line_strp,
                      DW_FORM.strx, DW_FORM.strx1, DW_FORM.strx2, DW_FORM.strx3,
                      DW_FORM.strx4} THEN "string"
    ELSE "invalid"

\* the do-while loop of resolve_indirect: read form codes until one is not
\* indirect
RECURSIVE ReadForms(_, _)
ReadForms(data, pos) ==
    LET read(r) == IF r.ok /\ r.val = DW_FORM.indirect THEN ReadForms(data, r.pos)
                   ELSE r
    IN read(Uleb128(data, pos))

\* value::resolve_indirect.  The loop reads into the local variable form it
\* declares, which hides the member of the same name: typ,
\* has_implicit_const, implicit_const and offset are assigned, the member
\* form is not.  The attribute_spec built from the form read carries no
\* implicit constant (0).
resolve_indirect(c, v) ==
    IF v.form # DW_FORM.indirect THEN [err |-> "none", v |-> v]
    ELSE LET read(r) ==
                 IF ~r.ok THEN [err |-> "format_error", v |-> v]
                 ELSE [err |-> "none",
                       v |-> [v EXCEPT !.typ = TypeOfForm(r.val),
                                       !.has_implicit_const =
                                            (r.val = DW_FORM.implicit_const),
                                       !.implicit_const = 0,
                                       !.offset = r.pos]]
         IN read(ReadForms(c.data, v.offset))

\* value::value(cu, spec, offset), spec being (form, type, implicit_const)
value(c, form, implicit_const, offset) ==
    resolve_indirect(c, [form |-> form, typ |-> TypeOfForm(form), offset |-> offset,
                         has_implicit_const |-> (form = DW_FORM.implicit_const),
                         implicit_const |-> implicit_const])

\* what a projection returns: the value of a successful read, or the
\* format_error of a read past the end of the data
Read(r) == IF r.ok THEN [err |-> "none", val |-> r.val]
           ELSE [err |-> "format_error", val |-> 0]
\* the default branch of a projection raising format_error
Mismatch_FormatError == [err |-> "format_error", val |-> 0]
\* the default branch of a projection: throw value_type_mismatch
Mismatch == [err |-> "value_type_mismatch", val |-> 0]

\* value::as_block: the position of the block in the data and its size
as_block(c, v) ==
    LET sized(r) ==
            IF ~r.ok \/ r.pos + r.val > Len(c.data)
            THEN [err |-> "format_error", val |-> 0]
            ELSE [err |-> "none", val |-> [pos |-> r.pos, size |-> r.val]]
    IN IF v.form = DW_FORM.block1 THEN sized(Fixed(c.data, v.offset, 1))
       ELSE IF v.form = DW_FORM.block2 THEN sized(Fixed(c.data, v.offset, 2))
       ELSE IF v.form = DW_FORM.block4 THEN sized(Fixed(c.data, v.offset, 4))
       ELSE IF v.form \in {DW_FORM.block, DW_FORM.exprloc}
            THEN sized(Uleb128(c.data, v.offset))
       ELSE Mismatch

\* value::as_uconstant
as_uconstant(c, v) ==
    IF v.form = DW_FORM.data1 THEN Read(Fixed(c.data, v.offset, 1))
    ELSE IF v.form = DW_FORM.data2 THEN Read(Fixed(c.data, v.offset, 2))
    ELSE IF v.form = DW_FORM.data4 THEN Read(Fixed(c.data, v.offset, 4))
    ELSE IF v.form = DW_FORM.data8 THEN Read(Fixed(c.data, v.offset, 8))
    ELSE IF v.form = DW_FORM.udata THEN Read(Uleb128(c.data, v.offset))
    ELSE IF v.form = DW_FORM.implicit_const
         THEN [err |-> "none", val |-> v.implicit_const]
    ELSE Mismatch

\* value::as_sconstant
as_sconstant(c, v) ==
    IF v.form = DW_FORM.data1 THEN Read(SFixed(c.data, v.offset, 1))
    ELSE IF v.form = DW_FORM.data2 THEN Read(SFixed(c.data, v.offset, 2))
    ELSE IF v.form = DW_FORM.data4 THEN Read(SFixed(c.data, v.offset, 4))
    ELSE IF v.form = DW_FORM.data8 THEN Read(SFixed(c.data, v.offset, 8))
    ELSE IF v.form = DW_FORM.sdata THEN Read(Sleb128(c.data, v.offset))
    ELSE IF v.form = DW_FORM.implicit_const
         THEN [err |-> "none", val |-> v.implicit_const]
    ELSE Mismatch

\* value::as_exprloc: the offset of the expression in the data and its
\* size, which is not checked against the data
as_exprloc(c, v) ==
    LET sized(r) ==
            IF ~r.ok THEN [err |-> "format_error", val |-> 0]
            ELSE [err |-> "none", val |-> [pos |-> r.pos, size |-> r.val]]
    IN IF v.form \in {DW_FORM.exprloc, DW_FORM.block}
       THEN sized(Uleb128(c.data, v.offset))
       ELSE IF v.form = DW_FORM.block1 THEN sized(Fixed(c.data, v.offset, 1))
       ELSE IF v.form = DW_FORM.block2 THEN sized(Fixed(c.data, v.offset, 2))
       ELSE IF v.form = DW_FORM.block4 THEN sized(Fixed(c.data, v.offset, 4))
       ELSE Mismatch

\* value::as_flag
as_flag(c, v) ==
    LET flag(r) == IF ~r.ok THEN [err |-> "format_error", val |-> 0]
                   ELSE [err |-> "none", val |-> (r.val # 0)]
    IN IF v.form = DW_FORM.flag THEN flag(Fixed(c.data, v.offset, 1))
       ELSE IF v.form = DW_FORM.flag_present THEN [err |-> "none", val |-> TRUE]
       ELSE Mismatch

\* value::as_sec_offset
as_sec_offset(c, v) ==
    IF v.form = DW_FORM.data4 THEN Read(Fixed(c.data, v.offset, 4))
    ELSE IF v.form = DW_FORM.data8 THEN Read(Fixed(c.data, v.offset, 8))
    ELSE IF v.form = DW_FORM.sec_offset THEN Read(Offset(c.data, v.offset, c.fmt64))
    ELSE Mismatch

\* The orders in which a build may evaluate the operands of
\* "cur.fixed<uint8_t>() | (cur.fixed<uint16_t>() << 8)": the language
\* leaves the order of the two reads open.
Orders == {"left_first", "right_first"}

\* the index of an addrx3 or strx3 value: a one-byte read and a two-byte
\* read of the same cursor, combined as byte | (half << 8)
Index24(data, pos, order) ==
    LET combine(byte, half) ==
            IF ~byte.ok \/ ~half.ok THEN Rd(FALSE, 0, pos)
            ELSE Rd(TRUE, byte.val + 256 * half.val, pos + 3)
    IN IF order = "left_first"
       THEN combine(Fixed(data, pos, 1), Fixed(data, pos + 1, 2))
       ELSE combine(Fixed(data, pos + 2, 1), Fixed(data, pos, 2))

\* value::as_address.  c.addr is the section .debug_addr; the header is
\* taken to be 8 bytes whatever the format.
as_address(c, v, order) ==
    LET lookup(index) ==
            IF ~index.ok THEN [err |-> "format_error", val |-> 0]
            ELSE IF c.addr_size = 4
                 THEN Read(Fixed(c.addr.data, 8 + index.val * c.addr_size, 4))
            ELSE IF c.addr_size = 8
                 THEN Read(Fixed(c.addr.data, 8 + index.val * c.addr_size, 8))
            ELSE [err |-> "format_error", val |-> 0]
    IN IF v.form = DW_FORM.addr THEN Read(Address(c.data, v.offset, c.addr_size))
       ELSE IF v.form = DW_FORM.addrx THEN lookup(Uleb128(c.data, v.offset))
       ELSE IF v.form = DW_FORM.addrx1 THEN lookup(Fixed(c.data, v.offset, 1))
       ELSE IF v.form = DW_FORM.addrx2 THEN lookup(Fixed(c.data, v.offset, 2))
       ELSE IF v.form = DW_FORM.addrx3 THEN lookup(Index24(c.data, v.offset, order))
       ELSE IF v.form = DW_FORM.addrx4 THEN lookup(Fixed(c.data, v.offset, 4))
       ELSE Mismatch

\* value::as_cstr: the bytes of the string.  c.str, c.line_str and
\* c.str_offsets are the sections .debug_str, .debug_line_str and
\* .debug_str_offsets; the header of .debug_str_offsets is taken to be 8
\* bytes, the stride of its slots follows the section's addr_size and the
\* width of the offset read follows the section's format.
as_cstr(c, v, order) ==
    LET text(r) == IF r.ok THEN [err |-> "none", val |-> r.val]
                   ELSE [err |-> "format_error", val |-> <<>>]
        failed == [err |-> "format_error", val |-> <<>>]
        at(sec, off) == IF ~off.ok THEN failed ELSE text(CString(sec.data, off.val))
        offset_size == IF c.str_offsets.addr_size = 8 THEN 8 ELSE 4
        slot(index) ==
            IF ~index.ok THEN failed
            ELSE at(c.str, Offset(c.str_offsets.data, 8 + index.val * offset_size,
                                  c.str_offsets.fmt64))
    IN IF v.form = DW_FORM.string THEN text(CString(c.data, v.offset))
       ELSE IF v.form = DW_FORM.strp THEN at(c.str, Offset(c.data, v.offset, c.fmt64))
       ELSE IF v.form = DW_FORM.line_strp
            THEN at(c.line_str, Offset(c.data, v.offset, c.fmt64))
       ELSE IF v.form = DW_FORM.strx THEN slot(Uleb128(c.data, v.offset))
       ELSE IF v.form = DW_FORM.strx1 THEN slot(Fixed(c.data, v.offset, 1))
       ELSE IF v.form = DW_FORM.strx2 THEN slot(Fixed(c.data, v.offset, 2))
       ELSE IF v.form = DW_FORM.strx3 THEN slot(Index24(c.data, v.offset, order))
       ELSE IF v.form = DW_FORM.strx4 THEN slot(Fixed(c.data, v.offset, 4))
       ELSE [err |-> "value_type_mismatch", val |-> <<>>]

\* value::as_string(): a copy of the bytes as_cstr designates
as_string(c, v, order) == as_cstr(c, v, order)

\* value::as_reference: the offset of the DIE referred to, within the unit
\* (ref1, ref2, ref4, ref8, ref_udata) or within .debug_info (ref_addr), or
\* the type unit of a signature (ref_sig8); c.type_units holds the
\* signatures that dwarf::get_type_unit finds
as_reference(c, v) ==
    LET signature(sig) ==
            IF ~sig.ok \/ sig.val \notin c.type_units
            THEN [err |-> "format_error", val |-> 0]
            ELSE [err |-> "none", val |-> sig.val]
    IN IF v.form = DW_FORM.ref1 THEN Read(Fixed(c.data, v.offset, 1))
       ELSE IF v.form = DW_FORM.ref2 THEN Read(Fixed(c.data, v.offset, 2))
       ELSE IF v.form = DW_FORM.ref4 THEN Read(Fixed(c.data, v.offset, 4))
       ELSE IF v.form = DW_FORM.ref8 THEN Read(Fixed(c.data, v.offset, 8))
       ELSE IF v.form = DW_FORM.ref_udata THEN Read(Uleb128(c.data, v.offset))
       ELSE IF v.form = DW_FORM.ref_addr THEN Read(Offset(c.data, v.offset, c.fmt64))
       ELSE IF v.form = DW_FORM.ref_sig8 THEN signature(Fixed(c.data, v.offset, 8))
       ELSE Mismatch

\* a range list that is read as a DWARF 4 list whatever the form
ListAt_Dwarf4(sec, off, is_dwarf5) ==
    [err |-> "none", val |-> [sec |-> sec, off |-> off, is_dwarf5 |-> FALSE]]

\* the range list rangelist(sec, off, addr_size, cu_low_pc, is_dwarf5) that
\* as_rangelist returns
ListAt(sec, off, is_dwarf5) ==
    [err |-> "none", val |-> [sec |-> sec, off |-> off, is_dwarf5 |-> is_dwarf5]]

\* value::as_rangelist.  c.rnglists is the section .debug_rnglists; its
\* header is read at offset 0: unit_length (4 bytes, or the escape
\* 0xffffffff and 8 bytes), version, addr_size, segment_selector_size,
\* offset_entry_count, then the table of offsets.
as_rangelist(c, v) ==
    LET failed == [err |-> "format_error", val |-> 0]
        sec == c.rnglists.data
        dwarf64 == Len(sec) >= 4 /\ SubSeq(sec, 1, 4) = <<255, 255, 255, 255>>
        header_size == IF dwarf64 THEN 20 ELSE 12
        offset_size == IF dwarf64 THEN 8 ELSE 4
        slot(count, range_offset) ==
            IF ~range_offset.ok THEN failed
            ELSE ListAt("rnglists",
                        header_size + count * offset_size + range_offset.val, TRUE)
        counted(index, count) ==
            IF ~count.ok \/ index >= count.val THEN failed
            ELSE slot(count.val, Fixed(sec, header_size + index * offset_size, offset_size))
        indexed(index) ==
            IF ~index.ok THEN failed
            ELSE counted(index.val, Fixed(sec, header_size - 4, 4))
        direct(off) == IF off.err # "none" THEN off ELSE ListAt("ranges", off.val, FALSE)
    IN IF v.form = DW_FORM.rnglistx THEN indexed(Uleb128(c.data, v.offset))
       ELSE direct(as_sec_offset(c, v))

\* the projection named op, as the actions below record it
Project(op, c, v) ==
    CASE op = "as_block" -> as_block(c, v)
      [] op = "as_uconstant" -> as_uconstant(c, v)
      [] op = "as_sconstant" -> as_sconstant(c, v)
      [] op = "as_exprloc" -> as_exprloc(c, v)
      [] op = "as_flag" -> as_flag(c, v)
      [] op = "as_sec_offset" -> as_sec_offset(c, v)

(***************************************************************************)
(* Range lists.  Addresses (taddr, 64 bits) are held as words: four limbs  *)
(* of 16 bits, least significant first, so that 2^32 - 1 and 2^64 - 1 and  *)
(* sums modulo 2^64 are exact.                                             *)
(***************************************************************************)
Limb == 65536
WZero == <<0, 0, 0, 0>>
\* ~(taddr)0
WMax == <<Limb - 1, Limb - 1, Limb - 1, Limb - 1>>
\* the word of a number 0 <= n < 2^31
WOf(n) == <<n % Limb, n \div Limb, 0, 0>>

\* a + b modulo 2^64
WAdd(a, b) ==
    LET s1 == a[1] + b[1]
        s2 == a[2] + b[2] + (s1 \div Limb)
        s3 == a[3] + b[3] + (s2 \div Limb)
        s4 == a[4] + b[4] + (s3 \div Limb)
    IN <<s1 % Limb, s2 % Limb, s3 % Limb, s4 % Limb>>

\* a < b and a <= b as unsigned 64-bit numbers
WLess(a, b) ==
    \/ a[4] < b[4]
    \/ a[4] = b[4] /\ a[3] < b[3]
    \/ a[4] = b[4] /\ a[3] = b[3] /\ a[2] < b[2]
    \/ a[4] = b[4] /\ a[3] = b[3] /\ a[2] = b[2] /\ a[1] < b[1]
WLeq(a, b) == a = b \/ WLess(a, b)

\* cursor::address() as a word: addr_size bytes (4 or 8), little-endian
WAddress(sec, pos, addr_size) ==
    LET limb(k) == IF 2 * k <= addr_size
                   THEN sec[pos + 2 * k - 1] + 256 * sec[pos + 2 * k]
                   ELSE 0
    IN IF pos + addr_size > Len(sec) THEN Rd(FALSE, WZero, pos)
       ELSE Rd(TRUE, <<limb(1), limb(2), limb(3), limb(4)>>, pos + addr_size)

\* cursor::uleb128() as a word (the numbers of the generated streams are
\* below 2^31)
WUleb128(sec, pos) ==
    LET word(r) == Rd(r.ok, IF r.ok THEN WOf(r.val) ELSE WZero, r.pos)
    IN word(Uleb128(sec, pos))

DW_RLE == [end_of_list |-> 0, base_addressx |-> 1, startx_endx |-> 2,
           startx_length |-> 3, offset_pair |-> 4, base_address |-> 5,
           start_end |-> 6, start_length |-> 7]

\* What "1 << (8 * addr_size)" may yield where it is added to
\* largest_offset.  The shift is made in int: for addr_size 4 its count
\* is the width of int and the language defines no result.  Builds yield 1
\* (the count taken modulo 32), 0 (the bit shifted out) or 2^32 (the shift
\* made in 64 bits); a build is one of these throughout.
ShiftOutcomes == {"masked", "zero", "wide"}

\* largest_offset of operator++ in DWARF 4 mode: ~(taddr)0, plus
\* 1 << (8 * addr_size) if addr_size < sizeof(taddr)
LargestOffset(addr_size, shift) ==
    IF addr_size >= 8 THEN WMax
    ELSE IF addr_size = 4
         THEN (IF shift = "masked" THEN WAdd(WMax, WOf(1))
               ELSE IF shift = "zero" THEN WMax
               ELSE WAdd(WMax, <<0, 0, 1, 0>>))
    ELSE WAdd(WMax, WOf(Pow2(8 * addr_size)))

\* an iterator of a range list: sec.reset() makes has_sec FALSE; emitted
\* is a history field (did the call made last yield an entry?)
RIt(has_sec, base_addr, pos, entry, err, emitted) ==
    [has_sec |-> has_sec, base_addr |-> base_addr, pos |-> pos, entry |-> entry,
     err |-> err, emitted |-> emitted]

\* the entry of a DW_RLE::offset_pair with operands a and b
OffsetPair_NoBase(base_addr, a, b) == [low |-> a, high |-> b]

OffsetPair(base_addr, a, b) ==
    [low |-> WAdd(base_addr, a), high |-> WAdd(base_addr, b)]

\* rangelist::iterator::operator++, DWARF 5 mode, the cursor at pos
RECURSIVE Next5(_, _, _, _)
Next5(l, it, pos, base_addr) ==
    LET sec == l.data
        failed == RIt(it.has_sec, base_addr, it.pos, it.entry, "format_error", FALSE)
        ended == RIt(FALSE, base_addr, 0, it.entry, "none", FALSE)
        yield(entry, p) == RIt(TRUE, base_addr, p, entry, "none", TRUE)
        emit(low, high, p) == yield([low |-> low, high |-> high], p)
        \* two numbers read one after the other, then what is done with them
        skip2(a, b) == IF ~a.ok \/ ~b.ok THEN failed ELSE Next5(l, it, b.pos, base_addr)
        skip1(a) == IF ~a.ok THEN failed ELSE Next5(l, it, a.pos, base_addr)
        pair(a, b) == IF ~a.ok \/ ~b.ok THEN failed
                      ELSE yield(OffsetPair(base_addr, a.val, b.val), b.pos)
        ends(a, b) == IF ~a.ok \/ ~b.ok THEN failed ELSE emit(a.val, b.val, b.pos)
        length(a, b) == IF ~a.ok \/ ~b.ok THEN failed
                        ELSE emit(a.val, WAdd(a.val, b.val), b.pos)
        based(a) == IF ~a.ok THEN failed ELSE Next5(l, it, a.pos, a.val)
        second(a) == IF a.ok THEN a.pos ELSE pos
        rle == sec[pos + 1]
        p1 == pos + 1
    IN IF CurEnd(sec, pos) THEN ended
       ELSE CASE rle = DW_RLE.end_of_list -> ended
              [] rle = DW_RLE.base_addressx -> skip1(Uleb128(sec, p1))
              [] rle \in {DW_RLE.startx_endx, DW_RLE.startx_length} ->
                   skip2(Uleb128(sec, p1), Uleb128(sec, second(Uleb128(sec, p1))))
              [] rle = DW_RLE.offset_pair ->
                   pair(WUleb128(sec, p1), WUleb128(sec, second(Uleb128(sec, p1))))
              [] rle = DW_RLE.base_address -> based(WAddress(sec, p1, l.addr_size))
              [] rle = DW_RLE.start_end ->
                   ends(WAddress(sec, p1, l.addr_size),
                        WAddress(sec, p1 + l.addr_size, l.addr_size))
              [] rle = DW_RLE.start_length ->
                   length(WAddress(sec, p1, l.addr_size),
                          WUleb128(sec, p1 + l.addr_size))
              [] OTHER -> failed

\* rangelist::iterator::operator++, DWARF 4 mode, the cursor at pos
RECURSIVE Next4(_, _, _, _)
Next4(l, it, pos, base_addr) ==
    LET sec == l.data
        largest_offset == LargestOffset(l.addr_size, l.shift)
        read(low, high) ==
            IF ~low.ok \/ ~high.ok
            THEN RIt(it.has_sec, base_addr, it.pos, it.entry, "format_error", FALSE)
            ELSE IF low.val = WZero /\ high.val = WZero
                 THEN RIt(FALSE, base_addr, 0, [low |-> WZero, high |-> WZero],
                          "none", FALSE)
            ELSE IF low.val = largest_offset THEN Next4(l, it, high.pos, high.val)
            ELSE RIt(TRUE, base_addr, high.pos,
                     [low |-> WAdd(low.val, base_addr),
                      high |-> WAdd(high.val, base_addr)], "none", TRUE)
    IN read(WAddress(sec, pos, l.addr_size),
            WAddress(sec, pos + l.addr_size, l.addr_size))

\* rangelist::iterator::operator++
RangePlusPlus(l, it) ==
    IF l.is_dwarf5 THEN Next5(l, it, it.pos, it.base_addr)
    ELSE Next4(l, it, it.pos, it.base_addr)

\* rangelist::end: the iterator of no section
RangeEnd == RIt(FALSE, WZero, 0, [low |-> WZero, high |-> WZero], "none", FALSE)

\* rangelist::iterator::iterator(sec, base_addr, is_dwarf5)
RangeIterator(l) ==
    RangePlusPlus(l, RIt(TRUE, l.base_addr, 0, [low |-> WZero, high |-> WZero],
                         "none", FALSE))

\* rangelist::begin
RangeBegin(l) == IF l.has_sec THEN RangeIterator(l) ELSE RangeEnd

\* rangelist::iterator::operator==: the same section and position
RangeIterEq(a, b) == a.has_sec = b.has_sec /\ a.pos = b.pos

\* rangelist::entry::contains
EntryContains(entry, addr) == WLeq(entry.low, addr) /\ WLess(addr, entry.high)

\* contains that takes the upper end of an entry to be in it
contains_Closed(l, addr) ==
    LET RECURSIVE loop(_)
        loop(it) ==
            IF it.err # "none" THEN [err |-> it.err, val |-> FALSE]
            ELSE IF RangeIterEq(it, RangeEnd) THEN [err |-> "none", val |-> FALSE]
            ELSE IF WLeq(it.entry.low, addr) /\ WLeq(addr, it.entry.high)
                 THEN [err |-> "none", val |-> TRUE]
            ELSE loop(RangePlusPlus(l, it))
    IN loop(RangeBegin(l))

\* rangelist::contains
contains(l, addr) ==
    LET RECURSIVE loop(_)
        loop(it) ==
            IF it.err # "none" THEN [err |-> it.err, val |-> FALSE]
            ELSE IF RangeIterEq(it, RangeEnd) THEN [err |-> "none", val |-> FALSE]
            ELSE IF EntryContains(it.entry, addr) THEN [err |-> "none", val |-> TRUE]
            ELSE loop(RangePlusPlus(l, it))
    IN loop(RangeBegin(l))

(***************************************************************************)
(* Generated inputs: a line table whose opcode program is a sequence of at *)
(* most MaxInstrs instructions, encoded to bytes.                          *)
(***************************************************************************)
RECURSIVE Flatten(_)
Flatten(ss) == IF ss = <<>> THEN <<>> ELSE Head(ss) \o Flatten(Tail(ss))

SeqsUpTo(S, n) == UNION {[1..k -> S] : k \in 0..n}

\* the bytes "/c/", "u", "h" and "a"
CompDir == <<47, 99, 47>>
CuName == <<117>>
HeaderFile == <<104>>
DefinedFile == <<97>>

\* a special opcode with the given adjusted opcode
EncSpecial(opcode_base, adjusted) == <<opcode_base + adjusted>>
EncCopy == <<DW_LNS.copy>>
EncSetFile(n) == <<DW_LNS.set_file, n>>
EncEndSequence == <<0, 1, DW_LNE.end_sequence>>
\* define_file of a relative name in directory dir: before DWARF 5 the
\* record is (name, dir_index, mtime, length), in DWARF 5 it follows
\* file_entry_formats, here (path: string, directory_index: udata)
EncDefineFile(version, name, dir) ==
    IF version >= 5
    THEN <<0, Len(name) + 3, DW_LNE.define_file>> \o name \o <<0, dir>>
    ELSE <<0, Len(name) + 5, DW_LNE.define_file>> \o name \o <<0, dir, 0, 0>>

\* the header bytes before the opcode program, kept opaque
Prologue == <<0, 0, 0, 0>>

\* the header fields and tables the constructor leaves for a program given
\* as a sequence of encoded instructions; instrs is a history field
MakeHdr(version, instrs, min_len, max_ops, line_base, line_range, opcode_base) ==
    [version |-> version,
     instrs |-> instrs,
     sec |-> Prologue \o Flatten(instrs),
     program_offset |-> Len(Prologue),
     addr_size |-> 4,
     minimum_instruction_length |-> min_len,
     maximum_operations_per_instruction |-> max_ops,
     default_is_stmt |-> TRUE,
     line_base |-> line_base,
     line_range |-> line_range,
     opcode_base |-> opcode_base,
     file_index_base |-> IF version >= 5 THEN 0 ELSE 1,
     comp_dir |-> CompDir,
     include_directories |-> <<CompDir>>,
     file_entry_formats |->
        IF version >= 5
        THEN <<[content |-> DW_LNCT.path, form |-> DW_FORM.string],
               [content |-> DW_LNCT.directory_index, form |-> DW_FORM.udata]>>
        ELSE <<>>,
     line_str |-> <<>>,
     str |-> <<>>]

\* the bookkeeping the constructor leaves: before DWARF 5 file 0 is the
\* unit's file and the header's entries follow, read with read_file_entry,
\* which leaves last_file_name_end at the end of the last of them (one byte
\* before the program: the empty name that ends the list); the DWARF 5
\* table is read without touching last_file_name_end
MakeTab(version) ==
    [file_names |->
        IF version >= 5 THEN <<File(CompDir \o CuName, 0, 0)>>
        ELSE <<File(CompDir \o CuName, 0, 0), File(CompDir \o HeaderFile, 0, 0)>>,
     added |-> IF version >= 5 THEN <<0>> ELSE <<0, 0>>,
     last_file_name_end |-> IF version >= 5 THEN 0 ELSE Len(Prologue) - 1,
     file_names_complete |-> FALSE]

\* the instructions of the generated programs: copy, a special opcode that
\* advances the address by 2 (adjusted opcode 27 = 2 * 12 + 3 with
\* line_range 12 and line_base -3), end_sequence, define_file and a set_file
\* of the file a define_file adds
Alphabet(version) ==
    {EncCopy, EncSpecial(13, 27), EncEndSequence,
     EncDefineFile(version, DefinedFile, 0),
     EncSetFile((IF version >= 5 THEN 0 ELSE 1) + 1)}

Iters == {1, 2}
\* the indices get_file is called with
FileIndices == 1..3

\* the line table: its header, its bookkeeping, the iterators over it and
\* the result of the call made last
VARIABLES hdr, tab, iters, ret
\* the unit whose data attribute values read, the value made last and the
\* result of the projection called last
VARIABLES cu, val, proj
\* a range list, an iterator of it with the entries it has yielded, and what
\* the call of contains made last returned
VARIABLES rl, rit, rres
\* the arguments of a constructor call and its outcome
VARIABLES args, ctor
\* the threads that iterate over the table hdr, tab, and whether their calls
\* of operator++ are synchronised
VARIABLES thr

vars == <<hdr, tab, iters, ret, cu, val, proj, rl, rit, rres, args, ctor, thr>>
lineVars == <<hdr, tab, iters, ret>>
valueVars == <<cu, val, proj>>
rangeVars == <<rl, rit, rres>>
ctorVars == <<args, ctor>>

NoArgs == [sec |-> <<>>]
NoTable == [err |-> "unmade"]
NoThreads == [sync |-> TRUE]

NoList == [has_sec |-> FALSE]
NoRangeIt == [made |-> FALSE]

\* no unit, no value
NoUnit == [data |-> <<>>]
NoValue == [made |-> FALSE]

\* an iterator that does not exist
Dead == [live |-> FALSE]

\* no call has returned a result the caller has yet to read
NoRet == [op |-> "none"]

Init ==
    /\ \E version \in {4, 5} :
         \E instrs \in SeqsUpTo(Alphabet(version), MaxInstrs) :
            /\ hdr = MakeHdr(version, instrs, 1, 1, 0 - 3, 12, 13)
            /\ tab = MakeTab(version)
    /\ iters = [i \in Iters |-> Dead]
    /\ ret = NoRet
    /\ cu = NoUnit /\ val = NoValue /\ proj = NoRet
    /\ rl = NoList /\ rit = NoRangeIt /\ rres = NoRet
    /\ args = NoArgs /\ ctor = NoTable /\ thr = NoThreads

\* the end() iterator of the table
EndIt == end(hdr, tab).it

\* i = table.begin().  rows and visited are history fields: the rows the
\* iterator has emitted, and the rows the body of a loop
\* "for (it = begin(); it != end(); ++it)" has been run on.  Iterators are
\* interchangeable, so the second one is only made while the first exists.
Begin(i) ==
    /\ ret = NoRet
    /\ i = 1 \/ iters[1].live
    /\ LET made(r, e) ==
              /\ tab' = r.t
              /\ iters' = [iters EXCEPT ![i] =
                    [live |-> TRUE, it |-> r.it,
                     rows |-> IF r.it.out THEN <<r.it.entry>> ELSE <<>>,
                     visited |-> IF r.it.err = "none" /\ r.it.out /\ ~IterEq(r.it, e)
                                 THEN <<r.it.entry>> ELSE <<>>]]
       IN made(begin(hdr, tab), EndIt)
    /\ UNCHANGED <<hdr, ret>>
    /\ UNCHANGED <<valueVars, rangeVars, ctorVars, thr>>

\* ++i that puts the iterator back at the first opcode of the program
Incr_Back(i) ==
    /\ ret = NoRet
    /\ iters[i].live
    /\ iters[i].it.err = "none"
    /\ iters' = [iters EXCEPT ![i].it.pos = hdr.program_offset]
    /\ UNCHANGED <<hdr, tab, ret>>
    /\ UNCHANGED <<valueVars, rangeVars, ctorVars, thr>>

\* ++i with the position, the row and the registers held in common by the
\* iterators of the table
Incr_Both(i) ==
    /\ ret = NoRet
    /\ iters[i].live
    /\ iters[i].it.err = "none"
    /\ LET advanced(r, e) ==
              /\ ~IterEq(iters[i].it, e)
              /\ tab' = r.t
              /\ iters' = [j \in Iters |->
                    IF iters[j].live THEN [iters[j] EXCEPT !.it = r.it] ELSE iters[j]]
       IN advanced(PlusPlus(hdr, tab, iters[i].it), EndIt)
    /\ UNCHANGED <<hdr, ret>>
    /\ UNCHANGED <<valueVars, rangeVars, ctorVars, thr>>

\* ++i on an iterator that has not reached end()
Incr(i) ==
    /\ ret = NoRet
    /\ iters[i].live
    /\ iters[i].it.err = "none"
    /\ LET advanced(r, e) ==
              /\ ~IterEq(iters[i].it, e)
              /\ tab' = r.t
              /\ iters' = [iters EXCEPT ![i] =
                    [live |-> TRUE, it |-> r.it,
                     rows |-> IF r.it.out THEN Append(@.rows, r.it.entry) ELSE @.rows,
                     visited |-> IF r.it.err = "none" /\ r.it.out /\ ~IterEq(r.it, e)
                                 THEN Append(@.visited, r.it.entry) ELSE @.visited]]
       IN advanced(PlusPlus(hdr, tab, iters[i].it), EndIt)
    /\ UNCHANGED <<hdr, ret>>
    /\ UNCHANGED <<valueVars, rangeVars, ctorVars, thr>>

\* table.get_file(index)
GetFile(index) ==
    /\ ret = NoRet
    /\ LET returned(r) ==
              /\ tab' = r.t
              /\ ret' = [op |-> "get_file", arg |-> index, err |-> r.err,
                         iterated |-> r.iterated, file |-> r.file]
       IN returned(get_file(hdr, tab, index))
    /\ UNCHANGED <<hdr, iters>>
    /\ UNCHANGED <<valueVars, rangeVars, ctorVars, thr>>

\* table.find_address(addr)
FindAddress(addr) ==
    /\ ret = NoRet
    /\ LET returned(r, e) ==
              /\ tab' = r.t
              /\ ret' = [op |-> "find_address", arg |-> addr, err |-> r.err,
                         at_end |-> r.err = "none" /\ IterEq(r.it, e),
                         entry |-> r.it.entry]
       IN returned(find_address(hdr, tab, addr), EndIt)
    /\ UNCHANGED <<hdr, iters>>
    /\ UNCHANGED <<valueVars, rangeVars, ctorVars, thr>>

\* the caller takes the result of the call
Return ==
    /\ ret # NoRet
    /\ ret' = NoRet
    /\ UNCHANGED <<hdr, tab, iters>>
    /\ UNCHANGED <<valueVars, rangeVars, ctorVars, thr>>

Next ==
    \/ \E i \in Iters : Begin(i)
    \/ \E i \in Iters : Incr(i)
    \/ \E index \in FileIndices : GetFile(index)
    \/ Return

Spec == Init /\ [][Next]_vars

(***************************************************************************)
(* find_address on programs of rows at increasing addresses                *)
(***************************************************************************)
\* special opcodes advancing the address by 1 and by 2, and end_sequence
FindAlphabet == {EncSpecial(13, 15), EncSpecial(13, 27), EncEndSequence}

\* the addresses find_address is called with
Addresses == 0..(2 * MaxInstrs)

InitFind ==
    /\ \E instrs \in SeqsUpTo(FindAlphabet, MaxInstrs) :
          hdr = MakeHdr(4, instrs, 1, 1, 0 - 3, 12, 13)
    /\ tab = MakeTab(4)
    /\ iters = [i \in Iters |-> Dead]
    /\ ret = NoRet
    /\ cu = NoUnit /\ val = NoValue /\ proj = NoRet
    /\ rl = NoList /\ rit = NoRangeIt /\ rres = NoRet
    /\ args = NoArgs /\ ctor = NoTable /\ thr = NoThreads

NextFind ==
    \/ \E addr \in Addresses : FindAddress(addr)
    \/ Return

SpecFind == InitFind /\ [][NextFind]_vars

(***************************************************************************)
(* Special opcodes under varying header fields                             *)
(***************************************************************************)
\* the special opcodes of the generated programs: the first one, one that
\* is 13 above it, and the last one (255)
SpecialOpcodes(opcode_base) ==
    {EncSpecial(opcode_base, 0), EncSpecial(opcode_base, 13),
     EncSpecial(opcode_base, 255 - opcode_base)}

InitArith ==
    /\ \E opcode_base \in {10, 13} : \E line_base \in {0 - 3, 1} :
       \E line_range \in {4, 12} : \E min_len \in {1, 4} : \E max_ops \in {1, 3} :
         \E instrs \in SeqsUpTo(SpecialOpcodes(opcode_base), MaxInstrs) :
            hdr = MakeHdr(4, instrs, min_len, max_ops, line_base, line_range,
                          opcode_base)
    /\ tab = MakeTab(4)
    /\ iters = [i \in Iters |-> Dead]
    /\ ret = NoRet
    /\ cu = NoUnit /\ val = NoValue /\ proj = NoRet
    /\ rl = NoList /\ rit = NoRangeIt /\ rres = NoRet
    /\ args = NoArgs /\ ctor = NoTable /\ thr = NoThreads

NextArith == Begin(1) \/ Incr(1)

SpecArith == InitArith /\ [][NextArith]_vars

(***************************************************************************)
(* Attribute values of a unit whose data is a chain of form codes and a    *)
(* payload                                                                 *)
(***************************************************************************)
\* Largest number of indirect form codes before the final form code.
MaxChain == 2

\* the forms the chain ends in
FinalForms ==
    {DW_FORM.data1, DW_FORM.data2, DW_FORM.data4, DW_FORM.data8, DW_FORM.udata,
     DW_FORM.sdata, DW_FORM.block1, DW_FORM.block, DW_FORM.exprloc, DW_FORM.flag,
     DW_FORM.flag_present, DW_FORM.sec_offset, DW_FORM.implicit_const}

\* the payloads: 255 and 511 as data, a block of two bytes, a flag not set
Payloads == {<<255, 1, 0, 0>>, <<2, 0, 0, 0>>, <<0>>}

\* the implicit constants of the attribute specifications
ImplicitConsts == {0, 5}

\* k form codes indirect
IndirectCodes(k) == [i \in 1..k |-> DW_FORM.indirect]

\* a unit whose data is k indirect form codes, the form code final and the
\* payload; codes, final and payload_offset are history fields
MakeUnit(k, final, payload) ==
    [data |-> IndirectCodes(k) \o <<final>> \o payload,
     fmt64 |-> FALSE,
     codes |-> k, final |-> final, payload_offset |-> k + 1]

\* a unit whose data ends within the form codes
MakeTruncatedUnit(k) ==
    [data |-> IndirectCodes(k), fmt64 |-> FALSE,
     codes |-> k, final |-> DW_FORM.indirect, payload_offset |-> k]

InitValue ==
    /\ \E k \in 0..MaxChain :
          \/ \E final \in FinalForms : \E payload \in Payloads :
                cu = MakeUnit(k, final, payload)
          \/ cu = MakeTruncatedUnit(k)
    /\ val = NoValue
    /\ proj = NoRet
    /\ hdr = MakeHdr(4, <<>>, 1, 1, 0 - 3, 12, 13)
    /\ rl = NoList /\ rit = NoRangeIt /\ rres = NoRet
    /\ args = NoArgs /\ ctor = NoTable /\ thr = NoThreads
    /\ tab = MakeTab(4)
    /\ iters = [i \in Iters |-> Dead]
    /\ ret = NoRet

\* val = value(cu, spec, offset): a value of form indirect at one of the
\* form codes, or a value of another form at the payload.  spec_form is a
\* history field: the form of the specification.
Construct(form, implicit_const, offset) ==
    /\ proj = NoRet
    /\ IF form = DW_FORM.indirect THEN offset < cu.payload_offset
       ELSE offset = cu.payload_offset
    /\ LET made(r) ==
              val' = [made |-> TRUE, err |-> r.err, v |-> r.v, spec_form |-> form]
       IN made(value(cu, form, implicit_const, offset))
    /\ UNCHANGED <<cu, proj, hdr, tab, iters, ret, rl, rit, rres, args, ctor, thr>>

\* a value has been made and no result is pending
HasValue == proj = NoRet /\ val.made /\ val.err = "none"

\* the projection op returns r
Returned(op, r) == proj' = [op |-> op, err |-> r.err, val |-> r.val]

\* val.as_block(&size)
AsBlock ==
    /\ HasValue
    /\ Returned("as_block", as_block(cu, val.v))
    /\ UNCHANGED <<cu, val, hdr, tab, iters, ret, rl, rit, rres, args, ctor, thr>>

\* val.as_uconstant()
AsUconstant ==
    /\ HasValue
    /\ Returned("as_uconstant", as_uconstant(cu, val.v))
    /\ UNCHANGED <<cu, val, hdr, tab, iters, ret, rl, rit, rres, args, ctor, thr>>

\* val.as_sconstant()
AsSconstant ==
    /\ HasValue
    /\ Returned("as_sconstant", as_sconstant(cu, val.v))
    /\ UNCHANGED <<cu, val, hdr, tab, iters, ret, rl, rit, rres, args, ctor, thr>>

\* val.as_exprloc()
AsExprloc ==
    /\ HasValue
    /\ Returned("as_exprloc", as_exprloc(cu, val.v))
    /\ UNCHANGED <<cu, val, hdr, tab, iters, ret, rl, rit, rres, args, ctor, thr>>

\* val.as_flag()
AsFlag ==
    /\ HasValue
    /\ Returned("as_flag", as_flag(cu, val.v))
    /\ UNCHANGED <<cu, val, hdr, tab, iters, ret, rl, rit, rres, args, ctor, thr>>

\* val.as_sec_offset()
AsSecOffset ==
    /\ HasValue
    /\ Returned("as_sec_offset", as_sec_offset(cu, val.v))
    /\ UNCHANGED <<cu, val, hdr, tab, iters, ret, rl, rit, rres, args, ctor, thr>>

\* the caller takes the result of the projection
Taken ==
    /\ proj # NoRet
    /\ proj' = NoRet
    /\ UNCHANGED <<cu, val, hdr, tab, iters, ret, rl, rit, rres, args, ctor, thr>>

NextValue ==
    \/ \E form \in FinalForms \cup {DW_FORM.indirect} :
         \E implicit_const \in ImplicitConsts :
           \E offset \in 0..(MaxChain + 1) : Construct(form, implicit_const, offset)
    \/ AsBlock
    \/ AsUconstant
    \/ AsSconstant
    \/ AsExprloc
    \/ AsFlag
    \/ AsSecOffset
    \/ Taken

SpecValue == InitValue /\ [][NextValue]_vars

(***************************************************************************)
(* Values of the indexed forms: strx* through .debug_str_offsets into      *)
(* .debug_str, addrx* into .debug_addr                                     *)
(***************************************************************************)
StrxForms == {DW_FORM.strx, DW_FORM.strx1, DW_FORM.strx2, DW_FORM.strx3,
              DW_FORM.strx4}
AddrxForms == {DW_FORM.addrx, DW_FORM.addrx1, DW_FORM.addrx2, DW_FORM.addrx3,
               DW_FORM.addrx4}

\* n < 2^24 in w bytes, least significant byte first
EncFixed(n, w) ==
    [k \in 1..w |-> IF k = 1 THEN n % 256
                    ELSE IF k = 2 THEN (n \div 256) % 256
                    ELSE IF k = 3 THEN (n \div 65536) % 256
                    ELSE 0]

\* the payload of a value of an indexed form holding index i
EncIndex(form, i) ==
    IF form \in {DW_FORM.strx, DW_FORM.addrx, DW_FORM.strx1, DW_FORM.addrx1}
    THEN <<i>>
    ELSE IF form \in {DW_FORM.strx2, DW_FORM.addrx2} THEN EncFixed(i, 2)
    ELSE IF form \in {DW_FORM.strx3, DW_FORM.addrx3} THEN EncFixed(i, 3)
    ELSE EncFixed(i, 4)

\* .debug_str: the strings "a", "b", "c" at offsets 0, 2, 4
StrData == <<97, 0, 98, 0, 99, 0>>
\* what the slots of .debug_str_offsets and of .debug_addr hold
StrSlots == <<4, 0, 2>>
AddrSlots == <<2730, 3003, 3276>>
\* the indices of the slots
Indices == 0..2

\* the initial length of a section's header: 4 bytes, or the escape
\* 0xffffffff and 8 bytes
EncLength(n, fmt64) ==
    IF fmt64 THEN <<255, 255, 255, 255>> \o EncFixed(n, 8) ELSE EncFixed(n, 4)

\* .debug_str_offsets: unit_length, version 5, two bytes of padding, then
\* the slots, as wide as the format's offsets
MakeStrOffsets(fmt64, addr_size) ==
    LET w == IF fmt64 THEN 8 ELSE 4
    IN [data |-> EncLength(4 + 3 * w, fmt64) \o <<5, 0, 0, 0>>
                  \o Flatten([k \in 1..3 |-> EncFixed(StrSlots[k], w)]),
        fmt64 |-> fmt64, addr_size |-> addr_size]

\* .debug_addr: unit_length, version 5, address size, segment selector
\* size 0, then the slots, as wide as an address
MakeAddr(fmt64, addr_size) ==
    [data |-> EncLength(4 + 3 * addr_size, fmt64) \o <<5, 0, addr_size, 0>>
               \o Flatten([k \in 1..3 |-> EncFixed(AddrSlots[k], addr_size)]),
     fmt64 |-> fmt64, addr_size |-> addr_size]

\* a unit whose data is the payload of a value of the form holding index i;
\* index is a history field
MakeIndexedUnit(form, i, fmt64, addr_size) ==
    [data |-> EncIndex(form, i), fmt64 |-> fmt64, addr_size |-> addr_size,
     str |-> [data |-> StrData, fmt64 |-> fmt64, addr_size |-> addr_size],
     line_str |-> [data |-> <<>>, fmt64 |-> fmt64, addr_size |-> addr_size],
     str_offsets |-> MakeStrOffsets(fmt64, addr_size),
     addr |-> MakeAddr(fmt64, addr_size),
     index |-> i, codes |-> 0, final |-> form, payload_offset |-> 0]

\* The units in the 64-bit format are those whose slot, as the code places
\* it, lies past the 16 bytes of the header: header bytes read as an
\* 8-byte number are beyond 2^31.
InitIndexed ==
    /\ \E form \in StrxForms \cup AddrxForms : \E i \in Indices :
       \E fmt64 \in BOOLEAN : \E addr_size \in {4, 8} :
          /\ fmt64 => 8 + i * addr_size >= 16
          /\ cu = MakeIndexedUnit(form, i, fmt64, addr_size)
    /\ val = NoValue
    /\ proj = NoRet
    /\ hdr = MakeHdr(4, <<>>, 1, 1, 0 - 3, 12, 13)
    /\ rl = NoList /\ rit = NoRangeIt /\ rres = NoRet
    /\ args = NoArgs /\ ctor = NoTable /\ thr = NoThreads
    /\ tab = MakeTab(4)
    /\ iters = [i \in Iters |-> Dead]
    /\ ret = NoRet

\* val.as_string(), the build evaluating operands in the given order
AsString(order) ==
    /\ HasValue
    /\ Returned("as_string", as_string(cu, val.v, order))
    /\ UNCHANGED <<cu, val, hdr, tab, iters, ret, rl, rit, rres, args, ctor, thr>>

\* val.as_address()
AsAddress(order) ==
    /\ HasValue
    /\ Returned("as_address", as_address(cu, val.v, order))
    /\ UNCHANGED <<cu, val, hdr, tab, iters, ret, rl, rit, rres, args, ctor, thr>>

NextIndexed ==
    \/ \E form \in StrxForms \cup AddrxForms : Construct(form, 0, 0)
    \/ \E order \in Orders : AsString(order)
    \/ \E order \in Orders : AsAddress(order)
    \/ Taken

SpecIndexed == InitIndexed /\ [][NextIndexed]_vars

(***************************************************************************)
(* Projections (SpecProject): every projection on a value of every form,   *)
(* and as_rangelist through the offsets table of .debug_rnglists.          *)
(***************************************************************************)
MaxOffsets == 2

AllForms == {DW_FORM[f] : f \in DOMAIN DW_FORM}

Projections ==
    {"as_address", "as_uconstant", "as_sconstant", "as_block", "as_exprloc", "as_flag",
     "as_string", "as_reference", "as_sec_offset", "as_rangelist"}

\* the projection named op
ProjectAny(op, c, v, order) ==
    CASE op = "as_address" -> as_address(c, v, order)
      [] op = "as_string" -> as_string(c, v, order)
      [] op = "as_reference" -> as_reference(c, v)
      [] op = "as_rangelist" -> as_rangelist(c, v)
      [] OTHER -> Project(op, c, v)

\* what the slots of the offsets table of .debug_rnglists hold
RangeOffsets == {3, 300}

\* .debug_rnglists: unit_length, version 5, addr_size 4,
\* segment_selector_size 0, offset_entry_count, the offsets, as wide as the
\* format's offsets, and the lists (bytes that are not read here)
MakeRnglists(fmt64, offsets) ==
    LET w == IF fmt64 THEN 8 ELSE 4
    IN EncLength(8 + Len(offsets) * w + 4, fmt64) \o <<5, 0, 4, 0>>
           \o EncFixed(Len(offsets), 4)
           \o Flatten([k \in 1..Len(offsets) |-> EncFixed(offsets[k], w)])
           \o <<0, 0, 0, 0>>

\* the data of a unit: numbers of every width, a block, a string, and the
\* indices 0..MaxOffsets
UnitData ==
    {<<255, 1, 0, 0, 0, 0, 0, 0>>, <<2, 0, 0, 0, 0, 0, 0, 0>>, <<97, 0>>, <<>>}
    \cup {<<i>> : i \in 0..MaxOffsets}

\* a unit of the 32-bit format with its sections, .debug_rnglists being of
\* either format; offsets and lists64 are history fields
MakeAnyUnit(data, lists64, offsets) ==
    [data |-> data, fmt64 |-> FALSE, addr_size |-> 4,
     str |-> [data |-> StrData, fmt64 |-> FALSE, addr_size |-> 4],
     line_str |-> [data |-> StrData, fmt64 |-> FALSE, addr_size |-> 4],
     str_offsets |-> MakeStrOffsets(FALSE, 4),
     addr |-> MakeAddr(FALSE, 4),
     rnglists |-> [data |-> MakeRnglists(lists64, offsets), fmt64 |-> lists64,
                   addr_size |-> 4],
     type_units |-> {2},
     offsets |-> offsets, lists64 |-> lists64,
     codes |-> 0, final |-> 0, payload_offset |-> 0]

InitProject ==
    /\ \E data \in UnitData, lists64 \in BOOLEAN,
          offsets \in SeqsUpTo(RangeOffsets, MaxOffsets) :
          cu = MakeAnyUnit(data, lists64, offsets)
    /\ val = NoValue
    /\ proj = NoRet
    /\ hdr = MakeHdr(4, <<>>, 1, 1, 0 - 3, 12, 13)
    /\ rl = NoList /\ rit = NoRangeIt /\ rres = NoRet
    /\ args = NoArgs /\ ctor = NoTable /\ thr = NoThreads
    /\ tab = MakeTab(4)
    /\ iters = [i \in Iters |-> Dead]
    /\ ret = NoRet

\* val.as_...() for the projection named op
ProjectValue(op, order) ==
    /\ HasValue
    /\ Returned(op, ProjectAny(op, cu, val.v, order))
    /\ UNCHANGED <<cu, val, hdr, tab, iters, ret, rl, rit, rres, args, ctor, thr>>

NextProject ==
    \/ \E form \in AllForms \ {DW_FORM.indirect} : Construct(form, 0, 0)
    \/ \E op \in Projections : \E order \in Orders : ProjectValue(op, order)
    \/ Taken

SpecProject == InitProject /\ [][NextProject]_vars

(***************************************************************************)
(* Extended opcodes (SpecFraming): programs of extended opcodes whose      *)
(* length is what the sub-opcode and its operands take, one more, or one   *)
(* less.                                                                   *)
(***************************************************************************)
\* an extended opcode of length field len
EncExtended(len, sub, operands) == <<0, len, sub>> \o operands

\* the byte after the operands of an opcode that is longer than they are;
\* read as an opcode it is DW_LNS::copy
Padding == <<DW_LNS.copy>>

FramingAlphabet ==
    {EncCopy,
     EncEndSequence,
     EncExtended(2, DW_LNE.end_sequence, Padding),
     EncExtended(2, DW_LNE.set_discriminator, <<5>>),
     EncExtended(1, DW_LNE.set_discriminator, <<5>>),
     EncExtended(3, DW_LNE.set_discriminator, <<5>> \o Padding),
     EncExtended(5, DW_LNE.set_address, <<16, 0, 0, 0>>),
     EncExtended(4, DW_LNE.set_address, <<16, 0, 0, 0>>)}

InitFraming ==
    /\ \E instrs \in SeqsUpTo(FramingAlphabet, MaxInstrs) :
          hdr = MakeHdr(4, instrs, 1, 1, 0 - 3, 12, 13)
    /\ tab = MakeTab(4)
    /\ iters = [i \in Iters |-> Dead]
    /\ ret = NoRet
    /\ cu = NoUnit /\ val = NoValue /\ proj = NoRet
    /\ rl = NoList /\ rit = NoRangeIt /\ rres = NoRet
    /\ args = NoArgs /\ ctor = NoTable /\ thr = NoThreads

NextFraming == Begin(1) \/ Incr(1)

SpecFraming == InitFraming /\ [][NextFraming]_vars

(***************************************************************************)
(* Header parsing (SpecHeader): the constructor called on generated        *)
(* headers of every version, valid and not.                                *)
(***************************************************************************)
MaxDirs == 2
MaxFiles == 2

\* the strings "d", "/d", "d/" (directories); the files "h" of directory 0
\* and 1 and "/h" of directory 2
DirNames == {<<100>>, <<47, 100>>, <<100, 47>>}
FileRecords ==
    {[name |-> <<104>>, dir |-> 0], [name |-> <<104>>, dir |-> 1],
     [name |-> <<47, 104>>, dir |-> 2]}

\* g holds the fields of a header: version, max_ops, line_range,
\* opcode_base, counts (the opcode length table), dirs, files (name and
\* directory index) and the program
EncDirs(g) ==
    IF g.version >= 5
    THEN <<1, DW_LNCT.path, DW_FORM.string, Len(g.dirs)>>
             \o Flatten([k \in 1..Len(g.dirs) |-> g.dirs[k] \o <<0>>])
    ELSE Flatten([k \in 1..Len(g.dirs) |-> g.dirs[k] \o <<0>>]) \o <<0>>

EncFiles(g) ==
    IF g.version >= 5
    THEN <<2, DW_LNCT.path, DW_FORM.string, DW_LNCT.directory_index, DW_FORM.udata,
           Len(g.files)>>
             \o Flatten([k \in 1..Len(g.files) |-> g.files[k].name \o <<0, g.files[k].dir>>])
    ELSE Flatten([k \in 1..Len(g.files) |->
                     g.files[k].name \o <<0, g.files[k].dir, 0, 0>>]) \o <<0>>

\* the bytes of the unit: unit_length, version, (address_size,
\* segment_selector_size,) header_length, and the header from
\* minimum_instruction_length on, then the program
EncHeader(g) ==
    LET body == <<1>> \o (IF g.version >= 4 THEN <<g.max_ops>> ELSE <<>>)
                    \o <<1, 253, g.line_range, g.opcode_base>> \o g.counts
                    \o EncDirs(g) \o EncFiles(g)
        rest == EncFixed(g.version, 2) \o (IF g.version >= 5 THEN <<4, 0>> ELSE <<>>)
                    \o EncFixed(Len(body), 4) \o body \o g.program
    IN EncFixed(Len(rest), 4) \o rest

\* the opcode length table of a header with opcode_base n: the canonical
\* counts, count 1 for the opcodes from 13 on, and one more than that at
\* position wrong (none if wrong = 0)
Counts(n, wrong) ==
    [i \in 1..(n - 1) |->
        (IF i < Len(OpcodeLengths) THEN OpcodeLengths[i + 1] ELSE 1)
            + (IF i = wrong THEN 1 ELSE 0)]

Header(version, max_ops, line_range, opcode_base, wrong, dirs, files) ==
    [version |-> version, max_ops |-> max_ops, line_range |-> line_range,
     opcode_base |-> opcode_base, wrong |-> wrong,
     counts |-> Counts(opcode_base, wrong), dirs |-> dirs, files |-> files,
     program |-> EncCopy]

OneFile == <<[name |-> <<104>>, dir |-> 0]>>

\* the headers of every version with the fields that are checked
CheckedHeaders ==
    {Header(v, mo, lr, 13, 0, IF v >= 5 THEN <<<<100>>>> ELSE <<>>, OneFile) :
        v \in 1..6, mo \in {0, 1, 4}, lr \in {0, 12}}

\* the headers of every opcode_base with a count that is wrong, or none
OpcodeHeaders ==
    UNION {{Header(4, 1, 12, ob, w, <<>>, OneFile) : w \in {0} \cup 1..(ob - 1)} :
              ob \in {0, 1, 4, 10, 13, 14, 15}}

\* the headers of every version with directories and files; a record of
\* the DWARF 5 directory table may hold the empty path
DirsOf(version) == IF version >= 5 THEN DirNames \cup {<<>>} ELSE DirNames

ListHeaders ==
    UNION {{Header(v, 1, 12, 13, 0, dirs, files) :
               dirs \in SeqsUpTo(DirsOf(v), MaxDirs),
               files \in SeqsUpTo(FileRecords, MaxFiles)} : v \in 2..5}

\* the headers of the units that are cut short
CutHeaders == {Header(v, 1, 12, 13, 0, <<<<100>>>>, OneFile) : v \in {4, 5}}

\* the compilation units: comp_dir "/c/", "" and "/c", and a name that is
\* relative or absolute ("/u")
CompUnits ==
    {<<CompDir, CuName>>, <<<<>>, CuName>>, <<<<47, 99>>, CuName>>, <<CompDir, <<47, 117>>>>}

\* the build matters where opcode_base is 0 or above 13
UsualBuild == [beyond |-> 0, empty_write |-> "crash"]
BuildsOf(opcode_base) == IF opcode_base \in 1..13 THEN {UsualBuild} ELSE Builds

\* the arguments of a call; g and cut are history fields, the header that
\* sec encodes and the number of bytes sec was cut to
Args(g, cut, cu_comp_dir, cu_name, build) ==
    [sec |-> SubSeq(EncHeader(g), 1, cut), cu_addr_size |-> 4,
     cu_comp_dir |-> cu_comp_dir, cu_name |-> cu_name,
     dw |-> [line_str |-> <<>>, str |-> <<>>], build |-> build, g |-> g, cut |-> cut]

WholeArgs(g, unit, build) == Args(g, Len(EncHeader(g)), unit[1], unit[2], build)

Whole(a) == a.cut = Len(EncHeader(a.g))

Calls ==
    {WholeArgs(g, <<CompDir, CuName>>, UsualBuild) : g \in CheckedHeaders}
    \cup UNION {{WholeArgs(g, <<CompDir, CuName>>, build) : build \in BuildsOf(g.opcode_base)} :
                   g \in OpcodeHeaders}
    \cup {WholeArgs(g, unit, UsualBuild) : g \in ListHeaders, unit \in CompUnits}
    \cup UNION {{Args(g, cut, CompDir, CuName, UsualBuild) : cut \in 0..Len(EncHeader(g))} :
                   g \in CutHeaders}

InitHeader ==
    /\ args \in Calls
    /\ ctor = NoTable
    /\ thr = NoThreads
    /\ rl = NoList /\ rit = NoRangeIt /\ rres = NoRet
    /\ cu = NoUnit /\ val = NoValue /\ proj = NoRet
    /\ hdr = MakeHdr(4, <<>>, 1, 1, 0 - 3, 12, 13)
    /\ tab = MakeTab(4)
    /\ iters = [i \in Iters |-> Dead]
    /\ ret = NoRet

\* line_table(sec, 0, cu_addr_size, cu_comp_dir, cu_name, dw)
MakeTable ==
    /\ ctor = NoTable
    /\ ctor' = line_table(args.sec, args.cu_addr_size, args.cu_comp_dir, args.cu_name,
                          args.dw, args.build)
    /\ UNCHANGED <<args, lineVars, valueVars, rangeVars, thr>>

NextHeader == MakeTable

SpecHeader == InitHeader /\ [][NextHeader]_vars

(***************************************************************************)
(* Two iterators and two tables (SpecShared): the iterators of the table   *)
(* hdr, tab advance in any order while another table, ctor, made by the    *)
(* constructor from a header, is there.                                    *)
(***************************************************************************)
\* the headers of the other table: versions 4 and 5, one directory, one
\* file
OtherCalls == {WholeArgs(g, <<CompDir, CuName>>, UsualBuild) : g \in CutHeaders}

InitShared ==
    /\ \E version \in {4, 5} :
         \E instrs \in SeqsUpTo(Alphabet(version), MaxInstrs) :
            /\ hdr = MakeHdr(version, instrs, 1, 1, 0 - 3, 12, 13)
            /\ tab = MakeTab(version)
    /\ iters = [i \in Iters |-> Dead]
    /\ ret = NoRet
    /\ cu = NoUnit /\ val = NoValue /\ proj = NoRet
    /\ rl = NoList /\ rit = NoRangeIt /\ rres = NoRet
    /\ thr = NoThreads
    /\ args \in OtherCalls
    /\ ctor = line_table(args.sec, args.cu_addr_size, args.cu_comp_dir, args.cu_name,
                         args.dw, args.build)

NextShared ==
    \/ \E i \in Iters : Begin(i)
    \/ \E i \in Iters : Incr(i)

SpecShared == InitShared /\ [][NextShared]_vars

(***************************************************************************)
(* Threads (SpecRace): two threads iterate over one table, each with its   *)
(* own iterator.  When the calls of operator++ are synchronised a call is  *)
(* one step (Begin, Incr).  When they are not, a thread executes one       *)
(* opcode per step, and a define_file in three steps: the comparison of    *)
(* the record's end against last_file_name_end, the update of              *)
(* last_file_name_end, and the append to file_names.                       *)
(***************************************************************************)
NoRecord == [entry_end |-> 0]

\* a thread about to execute the opcode at pos
Running(pos, regs, entry) ==
    [pc |-> "run", pos |-> pos, regs |-> regs, entry |-> entry, rec |-> NoRecord]

\* a thread whose call raised an error
Failed(th) == [th EXCEPT !.pc = "failed", !.rec = NoRecord]

\* the fields of the define_file record at pos, as read_file_entry and
\* read_file_entry_v5 read them before they look at last_file_name_end
ReadRecord(m, pos) ==
    IF m.version >= 5
    THEN (IF m.file_entry_formats = <<>>
          THEN [ok |-> FALSE, pos |-> pos, f |-> [file_name |-> <<>>]]
          ELSE read_v5_fields(m, 1, pos, [file_name |-> <<>>, dir_index |-> 0,
                                         mtime |-> 0, length |-> 0]))
    ELSE LET n == CString(m.sec, pos)
             d == Uleb128(m.sec, n.pos)
             mt == Uleb128(m.sec, d.pos)
             ln == Uleb128(m.sec, mt.pos)
         IN [ok |-> n.ok /\ d.ok /\ mt.ok /\ ln.ok, pos |-> ln.pos,
             f |-> [file_name |-> n.val, dir_index |-> d.val, mtime |-> mt.val,
                    length |-> ln.val]]

\* the opcode at pos is an extended opcode define_file
IsDefineFile(m, pos) ==
    LET length == Uleb128(m.sec, pos + 1)
        sub == Fixed(m.sec, length.pos, 1)
    IN m.sec[pos + 1] = 0 /\ length.ok /\ sub.ok /\ sub.val = DW_LNE.define_file

\* the thread goes on after the define_file record rec: the check of the
\* opcode's length, then the test of the while loop
Resume(th) ==
    IF th.rec.entry_end > th.rec.end \/ CurEnd(hdr.sec, th.rec.entry_end) THEN Failed(th)
    ELSE Running(th.rec.entry_end, th.regs, th.entry)

\* thread i executes the opcode at its position; of a define_file it reads
\* the record
ThreadOp(i) ==
    /\ ~thr.sync
    /\ thr.th[i].pc = "run"
    /\ ~CurEnd(hdr.sec, thr.th[i].pos)
    /\ LET th == thr.th[i]
           length == Uleb128(hdr.sec, th.pos + 1)
           record(r) ==
               /\ thr' = [thr EXCEPT !.th[i] =
                      IF ~r.ok THEN Failed(th)
                      ELSE [th EXCEPT !.pc = "compare",
                                      !.rec = [f |-> r.f, entry_end |-> r.pos,
                                               end |-> length.pos + length.val]]]
               /\ tab' = tab
           stepped(s, f) ==
               /\ thr' = [thr EXCEPT !.th[i] =
                      IF s.err # "none" \/ (s.out /\ ~f.ok)
                            \/ (~s.out /\ CurEnd(hdr.sec, s.pos))
                      THEN Failed(th)
                      ELSE Running(s.pos, s.regs, IF s.out THEN f.entry ELSE s.entry)]
               /\ tab' = IF s.err = "none" /\ s.out /\ CurEnd(hdr.sec, s.pos)
                         THEN [tab EXCEPT !.file_names_complete = TRUE] ELSE tab
           opcode(s) == stepped(s, ResolveFile(tab.file_names, s.entry))
       IN IF IsDefineFile(hdr, th.pos) THEN record(ReadRecord(hdr, length.pos + 1))
          ELSE opcode(step(hdr, tab, th.regs, th.entry, th.pos))
    /\ UNCHANGED <<hdr, iters, ret, valueVars, rangeVars, ctorVars>>

\* "if (cur->get_section_offset() <= last_file_name_end) return"
ThreadCompare(i) ==
    /\ ~thr.sync
    /\ thr.th[i].pc = "compare"
    /\ thr' = [thr EXCEPT !.th[i] =
           IF AlreadyProcessed(tab, thr.th[i].rec.entry_end) THEN Resume(thr.th[i])
           ELSE [thr.th[i] EXCEPT !.pc = "update"]]
    /\ UNCHANGED <<hdr, tab, iters, ret, valueVars, rangeVars, ctorVars>>

\* "last_file_name_end = cur->get_section_offset()"
ThreadUpdate(i) ==
    /\ ~thr.sync
    /\ thr.th[i].pc = "update"
    /\ tab' = [tab EXCEPT !.last_file_name_end = thr.th[i].rec.entry_end]
    /\ thr' = [thr EXCEPT !.th[i] =
           IF thr.th[i].rec.f.file_name = <<>> THEN Resume(thr.th[i])
           ELSE [thr.th[i] EXCEPT !.pc = "append"]]
    /\ UNCHANGED <<hdr, iters, ret, valueVars, rangeVars, ctorVars>>

\* "add_file_entry(move(file_name), dir_index, mtime, length)"
ThreadAppend(i) ==
    /\ ~thr.sync
    /\ thr.th[i].pc = "append"
    /\ LET added(a) ==
               /\ tab' = a.t
               /\ thr' = [thr EXCEPT !.th[i] =
                      IF a.err # "none" THEN Failed(thr.th[i]) ELSE Resume(thr.th[i])]
           rec == thr.th[i].rec
       IN added(add_file_entry(hdr, tab, rec.f.file_name, rec.f.dir_index, rec.f.mtime,
                               rec.f.length, rec.entry_end))
    /\ UNCHANGED <<hdr, iters, ret, valueVars, rangeVars, ctorVars>>

\* a call under the lock that synchronises the threads
AtomicBegin(i) == thr.sync /\ Begin(i)
AtomicIncr(i) == thr.sync /\ Incr(i)

\* the programs: rows and define_file records
RaceAlphabet(version) == {EncCopy, EncDefineFile(version, DefinedFile, 0)}

InitRace ==
    /\ \E version \in {4, 5} :
         \E instrs \in SeqsUpTo(RaceAlphabet(version), MaxInstrs) :
            /\ hdr = MakeHdr(version, instrs, 1, 1, 0 - 3, 12, 13)
            /\ tab = MakeTab(version)
            /\ \E sync \in BOOLEAN :
                  thr = [sync |-> sync,
                         th |-> [i \in Iters |->
                                    Running(hdr.program_offset,
                                            Reset(hdr.default_is_stmt, hdr.file_index_base),
                                            Reset(hdr.default_is_stmt, hdr.file_index_base))]]
    /\ iters = [i \in Iters |-> Dead]
    /\ ret = NoRet
    /\ cu = NoUnit /\ val = NoValue /\ proj = NoRet
    /\ rl = NoList /\ rit = NoRangeIt /\ rres = NoRet
    /\ args = NoArgs /\ ctor = NoTable

NextRace ==
    \/ \E i \in Iters : AtomicBegin(i)
    \/ \E i \in Iters : AtomicIncr(i)
    \/ \E i \in Iters : ThreadOp(i)
    \/ \E i \in Iters : ThreadCompare(i)
    \/ \E i \in Iters : ThreadUpdate(i)
    \/ \E i \in Iters : ThreadAppend(i)

SpecRace == InitRace /\ [][NextRace]_vars

(***************************************************************************)
(* Termination (SpecTerm): a caller makes an iterator with begin() and     *)
(* advances it with operator++, and calls get_file and find_address, over  *)
(* programs whose extended opcodes declare lengths that reach past the end *)
(* of the section or are cut short.  Fairness: a call that has begun       *)
(* returns (WF), and the caller goes on with its loop between the other    *)
(* calls (strong fairness of Iterate; the condition CanIterate under which *)
(* Iterate is enabled is written out).                                     *)
(***************************************************************************)
\* a length past the end of the section; a length with its last byte
\* missing when nothing follows
TermAlphabet ==
    {EncCopy, EncEndSequence, EncDefineFile(4, DefinedFile, 0),
     EncExtended(9, DW_LNE.set_discriminator, <<5>>), <<0, 130>>}

InitTerm ==
    /\ \E instrs \in SeqsUpTo(TermAlphabet, MaxInstrs) :
          hdr = MakeHdr(4, instrs, 1, 1, 0 - 3, 12, 13)
    /\ tab = MakeTab(4)
    /\ iters = [i \in Iters |-> Dead]
    /\ ret = NoRet
    /\ cu = NoUnit /\ val = NoValue /\ proj = NoRet
    /\ rl = NoList /\ rit = NoRangeIt /\ rres = NoRet
    /\ args = NoArgs /\ ctor = NoTable /\ thr = NoThreads

\* "it = table.begin()", once
Start == ~iters[1].live /\ Begin(1)

\* the loop of the caller: "for (it = begin(); it != end(); ++it)"
Iterate == Start \/ Incr(1)

\* the loop of the caller has a step to take
CanIterate ==
    /\ ret = NoRet
    /\ iters[1].live => iters[1].it.err = "none" /\ ~IterEq(iters[1].it, EndIt)

NextTerm ==
    \/ Start
    \/ Incr(1)
    \/ GetFile(2)
    \/ FindAddress(1)
    \/ Return

SpecTerm ==
    /\ InitTerm /\ [][NextTerm]_vars
    /\ WF_vars(Return)
    /\ <>[](~CanIterate) \/ []<><<Iterate>>_vars

(***************************************************************************)
(* The registers, opcode by opcode (SpecStep): one iterator executes one   *)
(* opcode per step (ThreadOp), over programs of every standard opcode, a   *)
(* special opcode, set_address and set_discriminator, with two operations  *)
(* per instruction so that op_index moves.                                 *)
(***************************************************************************)
StepAlphabet ==
    {EncCopy, EncSpecial(13, 27),
     <<DW_LNS.advance_pc, 3>>, <<DW_LNS.advance_line, 5>>, <<DW_LNS.advance_line, 127>>,
     <<DW_LNS.set_file, 0>>, <<DW_LNS.set_column, 7>>, <<DW_LNS.negate_stmt>>,
     <<DW_LNS.set_basic_block>>, <<DW_LNS.const_add_pc>>,
     <<DW_LNS.fixed_advance_pc, 5, 0>>, <<DW_LNS.set_prologue_end>>,
     <<DW_LNS.set_epilogue_begin>>, <<DW_LNS.set_isa, 3>>,
     EncExtended(2, DW_LNE.set_discriminator, <<5>>),
     EncExtended(5, DW_LNE.set_address, <<9, 0, 0, 0>>)}

InitStep ==
    /\ \E instrs \in SeqsUpTo(StepAlphabet, MaxInstrs) :
          hdr = MakeHdr(4, instrs, 1, 2, 0 - 3, 12, 13)
    /\ tab = MakeTab(4)
    /\ thr = [sync |-> FALSE,
              th |-> [i \in Iters |->
                         Running(hdr.program_offset,
                                 Reset(hdr.default_is_stmt, hdr.file_index_base),
                                 Reset(hdr.default_is_stmt, hdr.file_index_base))]]
    /\ iters = [i \in Iters |-> Dead]
    /\ ret = NoRet
    /\ cu = NoUnit /\ val = NoValue /\ proj = NoRet
    /\ rl = NoList /\ rit = NoRangeIt /\ rres = NoRet
    /\ args = NoArgs /\ ctor = NoTable

NextStep == ThreadOp(1)

SpecStep == InitStep /\ [][NextStep]_vars

(***************************************************************************)
(* Records that fail (SpecFail): programs with define_file records of a    *)
(* relative name whose directory index is 0 or is out of range, iterated   *)
(* by two iterators.                                                       *)
(***************************************************************************)
\* a directory index that include_directories does not have
BadDir == 3

FailAlphabet(version) ==
    {EncCopy, EncDefineFile(version, DefinedFile, 0),
     EncDefineFile(version, DefinedFile, BadDir)}

InitFail ==
    /\ \E version \in {4, 5} :
         \E instrs \in SeqsUpTo(FailAlphabet(version), MaxInstrs) :
            /\ hdr = MakeHdr(version, instrs, 1, 1, 0 - 3, 12, 13)
            /\ tab = MakeTab(version)
    /\ iters = [i \in Iters |-> Dead]
    /\ ret = NoRet
    /\ cu = NoUnit /\ val = NoValue /\ proj = NoRet
    /\ rl = NoList /\ rit = NoRangeIt /\ rres = NoRet
    /\ args = NoArgs /\ ctor = NoTable /\ thr = NoThreads

NextFail ==
    \/ \E i \in Iters : Begin(i)
    \/ \E i \in Iters : Incr(i)

SpecFail == InitFail /\ [][NextFail]_vars

(***************************************************************************)
(* Opcodes that are not defined (SpecOpcodes): programs with standard      *)
(* opcodes between set_isa and opcode_base and with extended opcodes of    *)
(* sub-opcodes that are not defined, in and out of the vendor range.       *)
(***************************************************************************)
\* the sub-opcodes: not defined (0, 5, 127) and of the vendor range
\* (lo_user, 200, hi_user)
SubOpcodes == {0, 5, 127, 128, 200, 255}

\* the instructions: copy, negate_stmt, the opcodes 13 and 15, which are
\* standard or special with the opcode_base of the header, and extended
\* opcodes of length 1
OpcodeAlphabet ==
    {EncCopy, <<DW_LNS.negate_stmt>>, <<13>>, <<15>>}
    \cup {EncExtended(1, sub, <<>>) : sub \in SubOpcodes}

OpcodeBases == {10, 13, 14, 16}

InitOpcodes ==
    /\ \E instrs \in SeqsUpTo(OpcodeAlphabet, MaxInstrs) : \E opcode_base \in OpcodeBases :
          hdr = MakeHdr(4, instrs, 1, 1, 0 - 3, 12, opcode_base)
    /\ tab = MakeTab(4)
    /\ iters = [i \in Iters |-> Dead]
    /\ ret = NoRet
    /\ cu = NoUnit /\ val = NoValue /\ proj = NoRet
    /\ rl = NoList /\ rit = NoRangeIt /\ rres = NoRet
    /\ args = NoArgs /\ ctor = NoTable /\ thr = NoThreads

NextOpcodes == Begin(1) \/ Incr(1)

SpecOpcodes == InitOpcodes /\ [][NextOpcodes]_vars

(***************************************************************************)
(* Range lists (SpecRange): a list over a generated stream of either mode, *)
(* iterated from begin() and asked whether it contains addresses.          *)
(***************************************************************************)
MaxItems == 3
MaxRanges == 2

\* a number below 2^14 as ULEB128
EncUleb(n) == IF n < 128 THEN <<n>> ELSE <<128 + (n % 128), n \div 128>>

\* the largest value of addr_size bytes
EncLargest(addr_size) == [k \in 1..addr_size |-> 255]

\* The entries of a DWARF 4 list: regular entries (one with its ends in
\* the wrong order, one that begins at 0), a base address selection and
\* the end of the list.
Items4 ==
    {[kind |-> "entry", a |-> 16, b |-> 48], [kind |-> "entry", a |-> 48, b |-> 16],
     [kind |-> "entry", a |-> 0, b |-> 32], [kind |-> "base", a |-> 0, b |-> 4096],
     [kind |-> "end", a |-> 0, b |-> 0]}

Enc4(item, addr_size) ==
    (IF item.kind = "base" THEN EncLargest(addr_size) ELSE EncFixed(item.a, addr_size))
        \o EncFixed(item.b, addr_size)

\* The entries of a DWARF 5 list, one of each tag, a start_end with its
\* ends in the wrong order, and a tag that is no DW_RLE.
BadTag == 8
Items5 ==
    {[tag |-> DW_RLE.end_of_list, a |-> 0, b |-> 0],
     [tag |-> DW_RLE.base_addressx, a |-> 1, b |-> 0],
     [tag |-> DW_RLE.startx_endx, a |-> 0, b |-> 1],
     [tag |-> DW_RLE.startx_length, a |-> 0, b |-> 4],
     [tag |-> DW_RLE.offset_pair, a |-> 16, b |-> 48],
     [tag |-> DW_RLE.base_address, a |-> 4096, b |-> 0],
     [tag |-> DW_RLE.start_end, a |-> 32, b |-> 64],
     [tag |-> DW_RLE.start_end, a |-> 64, b |-> 32],
     [tag |-> DW_RLE.start_length, a |-> 80, b |-> 8],
     [tag |-> BadTag, a |-> 0, b |-> 0]}

Enc5(item, addr_size) ==
    <<item.tag>> \o
    (CASE item.tag \in {DW_RLE.end_of_list, BadTag} -> <<>>
       [] item.tag = DW_RLE.base_addressx -> EncUleb(item.a)
       [] item.tag \in {DW_RLE.startx_endx, DW_RLE.startx_length, DW_RLE.offset_pair} ->
            EncUleb(item.a) \o EncUleb(item.b)
       [] item.tag = DW_RLE.base_address -> EncFixed(item.a, addr_size)
       [] item.tag = DW_RLE.start_end ->
            EncFixed(item.a, addr_size) \o EncFixed(item.b, addr_size)
       [] item.tag = DW_RLE.start_length -> EncFixed(item.a, addr_size) \o EncUleb(item.b))

EncItems(items, addr_size, is_dwarf5) ==
    Flatten([k \in 1..Len(items) |->
                IF is_dwarf5 THEN Enc5(items[k], addr_size) ELSE Enc4(items[k], addr_size)])

\* the units and offsets of the lists that are slices of a section, the
\* ranges of a list made from ranges, the addresses asked about
\* <<cu_addr_size, cu_low_pc, off>>
Units == {<<4, 0, 0>>, <<8, 0, 0>>, <<4, 256, 1>>}
Ranges == {<<16, 48>>, <<0, 0>>, <<64, 80>>}
RangeAddresses == {16, 48, 4112}

\* rangelist::rangelist(sec, off, cu_addr_size, cu_low_pc, is_dwarf5): the
\* list is the slice of the section from off.  shift is the build; items
\* is a history field, the entries the section was made of.
MakeRangeList(section, off, cu_addr_size, cu_low_pc, is_dwarf5, shift, items) ==
    [has_sec |-> TRUE, data |-> SubSeq(section, off + 1, Len(section)),
     addr_size |-> cu_addr_size, base_addr |-> WOf(cu_low_pc),
     is_dwarf5 |-> is_dwarf5, shift |-> shift, items |-> items, off |-> off]

\* rangelist::rangelist(ranges): the words of the ranges and two zeros, as
\* a DWARF 4 list of addresses of sizeof(taddr) bytes with base 0
MakeSynthetic(ranges, shift) ==
    [has_sec |-> TRUE,
     data |-> Flatten([k \in 1..Len(ranges) |->
                          EncFixed(ranges[k][1], 8) \o EncFixed(ranges[k][2], 8)])
              \o EncFixed(0, 8) \o EncFixed(0, 8),
     addr_size |-> 8, base_addr |-> WZero, is_dwarf5 |-> FALSE, shift |-> shift,
     items |-> [k \in 1..Len(ranges) |->
                   [kind |-> "entry", a |-> ranges[k][1], b |-> ranges[k][2]]]
               \o <<[kind |-> "end", a |-> 0, b |-> 0]>>,
     off |-> 0]

InitRange ==
    /\ \/ \E is_dwarf5 \in BOOLEAN, unit \in Units, shift \in ShiftOutcomes :
             \E items \in SeqsUpTo(IF is_dwarf5 THEN Items5 ELSE Items4, MaxItems) :
                /\ unit[1] = 8 \/ is_dwarf5 => shift = "wide"
                /\ rl = MakeRangeList([k \in 1..unit[3] |-> 9]
                                          \o EncItems(items, unit[1], is_dwarf5),
                                      unit[3], unit[1], unit[2], is_dwarf5, shift, items)
       \/ \E ranges \in SeqsUpTo(Ranges, MaxRanges) : rl = MakeSynthetic(ranges, "wide")
    /\ rit = NoRangeIt /\ rres = NoRet
    /\ args = NoArgs /\ ctor = NoTable /\ thr = NoThreads
    /\ cu = NoUnit /\ val = NoValue /\ proj = NoRet
    /\ hdr = MakeHdr(4, <<>>, 1, 1, 0 - 3, 12, 13)
    /\ tab = MakeTab(4)
    /\ iters = [i \in Iters |-> Dead]
    /\ ret = NoRet

\* it = rl.begin(); seen is a history field: the entries yielded so far
RlBegin ==
    /\ ~rit.made
    /\ LET made(it) ==
               rit' = [made |-> TRUE, it |-> it,
                       seen |-> IF it.emitted THEN <<it.entry>> ELSE <<>>]
       IN made(RangeBegin(rl))
    /\ UNCHANGED <<rl, rres, lineVars, valueVars, ctorVars, thr>>

\* ++it, of an iterator that is not end()
RlIncr ==
    /\ rit.made /\ rit.it.err = "none" /\ ~RangeIterEq(rit.it, RangeEnd)
    /\ LET advanced(it) ==
               rit' = [rit EXCEPT !.it = it,
                                  !.seen = IF it.emitted THEN Append(@, it.entry) ELSE @]
       IN advanced(RangePlusPlus(rl, rit.it))
    /\ UNCHANGED <<rl, rres, lineVars, valueVars, ctorVars, thr>>

\* rl.contains(addr)
RlContains(addr) ==
    /\ rres = NoRet
    /\ LET returned(r) ==
               rres' = [op |-> "contains", addr |-> addr, err |-> r.err, val |-> r.val]
       IN returned(contains(rl, WOf(addr)))
    /\ UNCHANGED <<rl, rit, lineVars, valueVars, ctorVars, thr>>

\* the caller takes what contains returned
RlTaken ==
    /\ rres # NoRet
    /\ rres' = NoRet
    /\ UNCHANGED <<rl, rit, lineVars, valueVars, ctorVars, thr>>

NextRange ==
    \/ RlBegin
    \/ RlIncr
    \/ \E addr \in RangeAddresses : RlContains(addr)
    \/ RlTaken

SpecRange == InitRange /\ [][NextRange]_vars

(***************************************************************************)
(* Properties of line-table iteration (checked under Spec)                 *)
(***************************************************************************)
Live(i) == iters[i].live /\ iters[i].it.err = "none"
AtEnd(i) == IterEq(iters[i].it, EndIt)
DefinedPath == CompDir \o DefinedFile

\* C1: line-program determinism.  Two iterations of one table that raise no
\* error, the second begun after or during the first, yield the same rows
\* in the same order, with the same registers and the same resolved file:
\* the rows of one are a prefix of the rows of the other.
C1_Determinism ==
    \A i \in Iters : \A j \in Iters :
        Live(i) /\ Live(j) =>
            \/ IsPrefix(iters[i].rows, iters[j].rows)
            \/ IsPrefix(iters[j].rows, iters[i].rows)

\* both iterators have run over a whole program that defines a file and
\* emits a row resolved to the file it defines
C1_Witness ==
    /\ Live(1) /\ Live(2) /\ AtEnd(1) /\ AtEnd(2)
    /\ iters[1].rows = iters[2].rows
    /\ \E k \in 1..Len(iters[1].rows) : iters[1].rows[k].file.path = DefinedPath

\* the defaults of the row registers, as section 3 of the specification
\* lists them
Defaults ==
    [address |-> 0, op_index |-> 0, file |-> NoFile,
     file_index |-> hdr.file_index_base, line |-> 1, column |-> 0,
     is_stmt |-> hdr.default_is_stmt, basic_block |-> FALSE,
     end_sequence |-> FALSE, prologue_end |-> FALSE, epilogue_begin |-> FALSE,
     isa |-> 0, discriminator |-> 0]

Unresolved(entry) == [entry EXCEPT !.file = NoFile]

\* C2: row register reset law.  The call that creates an iterator starts
\* from the default registers; when the row emitted last is an end_sequence
\* row, the working registers are the defaults and the row holds the
\* registers from before the reset with end_sequence set; a row emitted by a
\* copy that directly follows an end_sequence row holds the defaults.
C2_ResetLaw ==
    \A i \in Iters :
        Live(i) =>
            LET it == iters[i].it
                n == Len(iters[i].rows)
            IN /\ it.from = hdr.program_offset => it.start = Defaults
               /\ it.out /\ it.entry.end_sequence =>
                    /\ it.regs = Defaults
                    /\ Unresolved(it.entry) = [it.pre EXCEPT !.end_sequence = TRUE]
               /\ (/\ it.out /\ n >= 2 /\ iters[i].rows[n - 1].end_sequence
                   /\ it.at = it.from
                   /\ hdr.sec[it.at + 1] = DW_LNS.copy)
                  => Unresolved(it.entry) = Defaults

\* a copy directly after an end_sequence row that followed an address
\* advance has emitted a row
C2_Witness ==
    \E i \in Iters :
        /\ Live(i) /\ iters[i].it.out
        /\ Len(iters[i].rows) >= 2
        /\ LET r == iters[i].rows[Len(iters[i].rows) - 1]
           IN r.end_sequence /\ r.address > 0
        /\ iters[i].it.at = iters[i].it.from
        /\ hdr.sec[iters[i].it.at + 1] = DW_LNS.copy

\* no two entries of the file table come from the same record of the
\* program
NoRecordTwice(t) ==
    \A a \in 1..Len(t.added) : \A b \in 1..Len(t.added) :
        a # b /\ t.added[a] = t.added[b] => t.added[a] = 0

\* C4: file-table monotonicity.  Over every interleaving of whole begin(),
\* operator++ and get_file calls on one table, last_file_name_end never
\* decreases and no define_file record is appended to file_names twice.
C4_FileTableMonotonic ==
    [][/\ tab'.last_file_name_end >= tab.last_file_name_end
       /\ NoRecordTwice(tab')]_vars

\* two iterators have both run past a define_file record, which is in the
\* table once
C4_Witness ==
    /\ Live(1) /\ Live(2) /\ AtEnd(1) /\ AtEnd(2)
    /\ Len(iters[1].rows) > 0
    /\ \E k \in 1..Len(tab.added) : tab.added[k] > 0
    /\ tab.last_file_name_end > hdr.program_offset

\* C5: an iteration from begin() until the iterator equals end() visits one
\* row for every row-emitting opcode of the program, the last one included.
C5_AllRowsVisited ==
    \A i \in Iters :
        Live(i) /\ AtEnd(i) => iters[i].visited = iters[i].rows

\* The rows of the program: what executing every opcode from the program's
\* start emits, in order, up to the end of the section or the first error.
RECURSIVE RowsFrom(_, _, _, _)
RowsFrom(m, t, it, acc) ==
    LET acc1 == IF it.out THEN Append(acc, it.entry) ELSE acc
    IN IF it.err # "none" THEN [err |-> it.err, rows |-> acc, t |-> t]
       ELSE IF CurEnd(m.sec, it.pos) THEN [err |-> "none", rows |-> acc1, t |-> t]
       ELSE LET r == PlusPlus(m, t, it) IN RowsFrom(m, r.t, r.it, acc1)

ProgramRows(m, t) == LET b == begin(m, t) IN RowsFrom(m, b.t, b.it, <<>>)

\* the define_file records of the program
DefineFiles ==
    {k \in 1..Len(hdr.instrs) :
        /\ Len(hdr.instrs[k]) >= 3
        /\ hdr.instrs[k][1] = 0
        /\ hdr.instrs[k][3] = DW_LNE.define_file}

\* every define_file record of the program has its entry in the file table
AllDefinedFilesIn(t) ==
    Len(t.file_names) = Len(MakeTab(hdr.version).file_names) + Cardinality(DefineFiles)

GetFileReturned == ret.op = "none" /\ ret'.op = "get_file"

\* get_file on an index that is in the table already returns the entry
\* without iterating; on a table known to be complete it does not iterate
GetFileWithoutIteration ==
    /\ ret'.arg < Len(tab.file_names) =>
         /\ ret'.err = "none" /\ ret'.file = tab.file_names[ret'.arg + 1]
         /\ ~ret'.iterated /\ tab' = tab
    /\ ret'.arg >= Len(tab.file_names) /\ tab.file_names_complete =>
         ~ret'.iterated /\ tab' = tab

\* what C8 says of a get_file call that misses
GetFileAfterIteration ==
    /\ ret'.iterated
    /\ AllDefinedFilesIn(tab')
    /\ ret'.arg < Len(tab'.file_names) =>
         ret'.err = "none" /\ ret'.file = tab'.file_names[ret'.arg + 1]

GetFileOutOfRange(kind) ==
    LET p == ProgramRows(hdr, tab)
    IN /\ tab.file_names_complete /\ ret'.arg >= Len(tab.file_names) =>
            ret'.err = kind /\ tab' = tab
       /\ (/\ ~tab.file_names_complete /\ p.err = "none"
           /\ ret'.arg >= Len(p.t.file_names)) =>
            ret'.err = kind /\ tab'.file_names = p.t.file_names

\* C9 as stated: such a call fails with format_error and leaves the file
\* table unchanged.
C9_AsStated == [][GetFileReturned => GetFileOutOfRange("format_error")]_vars

\* C9, amended: such a call fails with out_of_range, an error kind of its
\* own, and leaves the file table unchanged; no other get_file call fails
\* with out_of_range.
C9_GetFileOutOfRange ==
    [][GetFileReturned =>
         /\ GetFileOutOfRange("out_of_range")
         /\ ret'.err = "out_of_range" => ret'.arg >= Len(tab'.file_names)]_vars

\* get_file has failed on an index that is out of range even after its
\* forced iteration appended an entry
C9_Witness ==
    /\ ret.op = "get_file" /\ ret.err = "out_of_range" /\ ret.iterated
    /\ Cardinality(DefineFiles) > 0
    /\ AllDefinedFilesIn(tab)

(***************************************************************************)
(* Properties of find_address (checked under SpecFind)                     *)
(***************************************************************************)
\* find_address returned an iterator at this row
Found(row) == ret.err = "none" /\ ~ret.at_end /\ ret.entry = row

\* C6: find_address boundary.  For a program whose rows are row0, row1,
\* row2 at addresses a0 < a1 < a2, none an end_sequence row,
\* find_address(a0) and find_address(a1 - 1) return row0 and
\* find_address(a1) returns row1.
C6_FindAddressBoundary ==
    LET p == ProgramRows(hdr, tab)
        r == p.rows
    IN (/\ ret.op = "find_address" /\ p.err = "none" /\ Len(r) = 3
        /\ \A k \in 1..3 : ~r[k].end_sequence
        /\ r[1].address < r[2].address /\ r[2].address < r[3].address)
       => /\ ret.arg = r[1].address => Found(r[1])
          /\ ret.arg = r[2].address - 1 => Found(r[1])
          /\ ret.arg = r[2].address => Found(r[2])

\* the rows r with r not an end_sequence row and
\* r.address <= a < next.address
Matches(rows, a) ==
    {k \in 1..(Len(rows) - 1) :
        /\ ~rows[k].end_sequence
        /\ rows[k].address <= a /\ a < rows[k + 1].address}

Max(S) == CHOOSE x \in S : \A y \in S : y <= x

\* C7: find_address(a) returns the last row r of the program that is not an
\* end_sequence row and has r.address <= a < next.address, and end() if
\* there is none.
C7_FindAddressLastMatch ==
    LET p == ProgramRows(hdr, tab)
        m == Matches(p.rows, ret.arg)
    IN ret.op = "find_address" /\ p.err = "none" =>
          IF m = {} THEN ret.err = "none" /\ ret.at_end
          ELSE Found(p.rows[Max(m)])

(***************************************************************************)
(* Properties of special opcodes (checked under SpecArith)                 *)
(***************************************************************************)
\* the opcode an iterator executed last
LastOpcode(i) == hdr.sec[iters[i].it.at + 1]

\* C3: special-opcode arithmetic.  Executing a special opcode changes line,
\* address and op_index by the formulas of section 4.4, computed from the
\* header fields and the registers before the opcode, leaves the other
\* registers as they were, and emits one row holding the updated values.
C3_SpecialOpcodeArithmetic ==
    \A i \in Iters :
        Live(i) /\ iters[i].it.out /\ LastOpcode(i) >= hdr.opcode_base =>
            LET it == iters[i].it
                adjusted == LastOpcode(i) - hdr.opcode_base
                op_advance == adjusted \div hdr.line_range
                sum == it.pre.op_index + op_advance
                max_ops == hdr.maximum_operations_per_instruction
            IN /\ Unresolved(it.entry) =
                    [it.pre EXCEPT
                       !.line = it.pre.line + hdr.line_base + (adjusted % hdr.line_range),
                       !.address = it.pre.address
                          + hdr.minimum_instruction_length * (sum \div max_ops),
                       !.op_index = sum % max_ops]
               /\ Last(iters[i].rows) = it.entry
               /\ it.pos = it.at + 1

\* a special opcode executed with op_index > 0 has advanced the address and
\* moved the line backwards
C3_Witness ==
    \E i \in Iters :
        /\ Live(i) /\ iters[i].it.out /\ LastOpcode(i) >= hdr.opcode_base
        /\ iters[i].it.pre.op_index > 0
        /\ iters[i].it.entry.address > iters[i].it.pre.address
        /\ iters[i].it.entry.line < iters[i].it.pre.line
        /\ iters[i].it.entry.op_index # iters[i].it.pre.op_index

(***************************************************************************)
(* Properties of attribute values (checked under SpecValue)                *)
(***************************************************************************)
\* the value made from a specification of form indirect, its chain of form
\* codes ending in a form that is not indirect
IndirectMade ==
    /\ val.made /\ val.err = "none"
    /\ val.spec_form = DW_FORM.indirect
    /\ cu.final # DW_FORM.indirect

\* the value made directly with the final form of the chain at the payload
DirectValue == value(cu, cu.final, 0, cu.payload_offset).v

\* C10: indirect form transparency.  A value constructed with form indirect
\* whose payload is a chain of form codes ending in the form F that is not
\* indirect has form F, the semantic type of F and the offset just past the
\* form codes, and every projection of it returns, or fails, as on the
\* value constructed directly with form F at that offset.
C10_IndirectTransparency ==
    IndirectMade =>
        /\ val.v.form = cu.final
        /\ val.v.typ = TypeOfForm(cu.final)
        /\ val.v.offset = cu.payload_offset
        /\ proj # NoRet =>
              /\ proj.err = Project(proj.op, cu, DirectValue).err
              /\ proj.val = Project(proj.op, cu, DirectValue).val

(***************************************************************************)
(* Properties of the indexed forms (checked under SpecIndexed)             *)
(***************************************************************************)
\* the value made last has the form the unit's payload was written for, so
\* it holds the index cu.index
HoldsIndex(forms) ==
    val.made /\ val.err = "none" /\ val.v.form = cu.final /\ cu.final \in forms

\* the layout of section 4.2: the header is 8 bytes in the 32-bit format
\* and 16 bytes in the 64-bit format
HeaderSize(fmt64) == IF fmt64 THEN 16 ELSE 8

\* the string of slot i: stride and width of the slots are 4 bytes in the
\* 32-bit format and 8 bytes in the 64-bit format
StringOfSlot(c, i) ==
    LET w == IF c.str_offsets.fmt64 THEN 8 ELSE 4
    IN CString(c.str.data,
               Fixed(c.str_offsets.data, HeaderSize(c.str_offsets.fmt64) + i * w, w).val)

\* C11: string-index resolution.  as_string of a value of form strx, strx1,
\* strx2, strx3 or strx4 holding index i returns the string of .debug_str
\* at the offset stored in slot i of .debug_str_offsets, the slots starting
\* after the header and being as wide as the format's offsets, whatever the
\* address size.
C11_StringIndex ==
    proj.op = "as_string" /\ HoldsIndex(StrxForms) =>
        /\ proj.err = "none"
        /\ proj.val = StringOfSlot(cu, cu.index).val

\* the address of slot i: slots of addr_size bytes after the header
AddressOfSlot(c, i) ==
    Fixed(c.addr.data, HeaderSize(c.addr.fmt64) + i * c.addr_size, c.addr_size)

\* C12: indexed address resolution.  as_address of a value of form addrx,
\* addrx1, addrx2, addrx3 or addrx4 holding index i returns the address in
\* slot i of .debug_addr, the slots of addr_size bytes lying one after
\* another after the header.
C12_AddressIndex ==
    proj.op = "as_address" /\ HoldsIndex(AddrxForms) =>
        /\ proj.err = "none"
        /\ proj.val = AddressOfSlot(cu, cu.index).val

(***************************************************************************)
(* Properties of range lists (checked under SpecRange)                     *)
(***************************************************************************)
RangeAtEnd == rit.made /\ rit.it.err = "none" /\ RangeIterEq(rit.it, RangeEnd)

\* the entries that iterating l yields from it on, until end() or an error
RECURSIVE EntriesFrom(_, _)
EntriesFrom(l, it) ==
    IF it.err # "none" \/ RangeIterEq(it, RangeEnd) THEN <<>>
    ELSE <<it.entry>> \o EntriesFrom(l, RangePlusPlus(l, it))

Entries(l) == EntriesFrom(l, RangeBegin(l))

BaseSelected(l) ==
    /\ l.has_sec /\ ~l.is_dwarf5 /\ Len(l.items) = 3
    /\ l.items[1].kind = "base" /\ l.items[2].kind = "entry" /\ l.items[3].kind = "end"

\* C14: range-list v4 base-address selection.  In DWARF 4 mode, for
\* addr_size 4 and for addr_size 8, an entry whose first word is the largest
\* value of addr_size bytes yields nothing and makes its second word the
\* base: iterating (max, B), (x, y), (0, 0) raises no error, yields exactly
\* the entry (B + x, B + y), and the iterator is then end().
C14_BaseAddressSelection ==
    rit.made /\ BaseSelected(rl) =>
        /\ rit.it.err = "none"
        /\ rit.seen = <<[low |-> WOf(rl.items[1].b + rl.items[2].a),
                         high |-> WOf(rl.items[1].b + rl.items[2].b)]>>
        /\ \/ RangeIterEq(rit.it, RangeEnd)
           \/ RangeIterEq(RangePlusPlus(rl, rit.it), RangeEnd)

\* The entries that the entries of a DWARF 5 list yield up to its first
\* end_of_list (or unknown tag), in stream order, base being the base
\* address: offset_pair, start_end and start_length yield an entry each.
RECURSIVE Emitting5(_, _)
Emitting5(items, base) ==
    IF items = <<>> THEN <<>>
    ELSE LET i == Head(items)
             entry(low, high) == [low |-> WOf(low), high |-> WOf(high)]
         IN CASE i.tag \in {DW_RLE.end_of_list, BadTag} -> <<>>
              [] i.tag = DW_RLE.base_address -> Emitting5(Tail(items), i.a)
              [] i.tag = DW_RLE.offset_pair ->
                   <<entry(base + i.a, base + i.b)>> \o Emitting5(Tail(items), base)
              [] i.tag = DW_RLE.start_end ->
                   <<entry(i.a, i.b)>> \o Emitting5(Tail(items), base)
              [] i.tag = DW_RLE.start_length ->
                   <<entry(i.a, i.a + i.b)>> \o Emitting5(Tail(items), base)
              [] OTHER -> Emitting5(Tail(items), base)

\* the list has an end_of_list that no unknown tag precedes
EndsList(items) ==
    \E k \in 1..Len(items) :
       /\ items[k].tag = DW_RLE.end_of_list
       /\ \A j \in 1..(k - 1) : items[j].tag # BadTag

\* the base address the list was made with, as a number
LowPc(l) == l.base_addr[1]

\* C15: range-list v5 termination.  In DWARF 5 mode the entries an iterator
\* has yielded are at every time the first of the emitting entries that
\* precede the first end_of_list tag, in stream order, and never an entry
\* encoded after the tag; once they have all been yielded, the iterator is
\* end() or its next operator++ reads the tag and makes it end(); an
\* iterator that is end() has yielded them all.  So the stream base_address
\* 0x1000, offset_pair 0x10 0x30, end_of_list yields only (0x1010, 0x1030).
C15_EndOfList ==
    rit.made /\ rl.is_dwarf5 /\ rit.it.err = "none" =>
        /\ IsPrefix(rit.seen, Emitting5(rl.items, LowPc(rl)))
        /\ RangeAtEnd => rit.seen = Emitting5(rl.items, LowPc(rl))
        /\ EndsList(rl.items) /\ rit.seen = Emitting5(rl.items, LowPc(rl)) =>
              \/ RangeAtEnd
              \/ RangeIterEq(RangePlusPlus(rl, rit.it), RangeEnd)
        /\ rl.items = <<[tag |-> DW_RLE.base_address, a |-> 4096, b |-> 0],
                        [tag |-> DW_RLE.offset_pair, a |-> 16, b |-> 48],
                        [tag |-> DW_RLE.end_of_list, a |-> 0, b |-> 0]>> =>
              rit.seen = <<[low |-> WOf(4112), high |-> WOf(4144)]>>

\* an iterator has read an end_of_list that an emitting entry follows, and
\* is end() having yielded the one entry before the tag
C15_Witness ==
    /\ RangeAtEnd /\ rl.is_dwarf5 /\ Len(rl.items) = 3
    /\ rl.items[1].tag = DW_RLE.offset_pair
    /\ rl.items[2].tag = DW_RLE.end_of_list
    /\ rl.items[3].tag = DW_RLE.start_end
    /\ Len(rit.seen) = 1 /\ LowPc(rl) = 256

\* the startx_endx and startx_length entries of a DWARF 5 list that precede
\* its first end_of_list (or unknown tag)
StartxRead(items) ==
    {k \in 1..Len(items) :
        /\ items[k].tag \in {DW_RLE.startx_endx, DW_RLE.startx_length}
        /\ \A j \in 1..(k - 1) : items[j].tag \notin {DW_RLE.end_of_list, BadTag}}

\* C16: in DWARF 5 mode every startx_endx entry and every startx_length
\* entry of the stream yields exactly one range: an iterator that has come
\* to end() has yielded one entry for each of them, besides the entries of
\* the offset_pair, start_end and start_length entries.
C16_StartxEmits ==
    RangeAtEnd /\ rl.is_dwarf5 =>
        Len(rit.seen) = Len(Emitting5(rl.items, LowPc(rl))) + Cardinality(StartxRead(rl.items))

\* C17: every entry a range-list iterator yields, in DWARF 4 and DWARF 5
\* mode, for every stream and base address, has low <= high.
C17_LowLeqHigh ==
    rit.made => \A k \in 1..Len(rit.seen) : WLeq(rit.seen[k].low, rit.seen[k].high)

(***************************************************************************)
(* Properties of operator++ of the line iterator (checked under Spec)      *)
(***************************************************************************)
\* the offset of instruction k of the program (of the end, for k past the
\* last), and the instruction an offset is the start of
InstrOffset(k) == hdr.program_offset + Len(Flatten(SubSeq(hdr.instrs, 1, k - 1)))
InstrAt(pos) == CHOOSE k \in 1..(Len(hdr.instrs) + 1) : InstrOffset(k) = pos

\* the instructions that emit a row: copy, special opcodes, end_sequence
Emits(instr) ==
    \/ instr = EncCopy
    \/ instr = EncEndSequence
    \/ Len(instr) = 1 /\ instr[1] >= hdr.opcode_base

\* the first instruction from k on that emits a row; 0 if there is none
FirstEmitting(k) ==
    LET E == {j \in k..Len(hdr.instrs) : Emits(hdr.instrs[j])}
    IN IF E = {} THEN 0 ELSE CHOOSE j \in E : \A e \in E : j <= e

\* C18: operator++ on a line iterator executes the opcodes one after another
\* from its position and stops at the first that emits a row: if it raises
\* no error, the opcode it executed last is the first emitting opcode at or
\* after the position it started from and the iterator stands right after
\* it, and an error is raised at that opcode or before it; if it executed an
\* opcode and none from its position to the end of the program emits a row,
\* it fails with format_error; at the end of the program it executes nothing.
C18_StopsAtFirstRow ==
    \A i \in Iters : iters[i].live =>
        LET it == iters[i].it
            k == InstrAt(it.from)
            j == FirstEmitting(k)
        IN /\ \E n \in 1..(Len(hdr.instrs) + 1) : InstrOffset(n) = it.from
           /\ j # 0 /\ it.err = "none" =>
                 it.out /\ it.at = InstrOffset(j) /\ it.pos = InstrOffset(j + 1)
           /\ j # 0 /\ it.err # "none" => it.at <= InstrOffset(j) /\ it.pos = it.from
           /\ j = 0 /\ k <= Len(hdr.instrs) => it.err = "format_error" /\ ~it.out
           /\ k = Len(hdr.instrs) + 1 => it.err = "none" /\ ~it.out /\ it.pos = it.from

\* an iterator that has emitted a row has then executed an opcode that emits
\* none, up to the end of the program, and failed with format_error
C18_Witness ==
    \E i \in Iters :
       /\ iters[i].live /\ iters[i].rows # <<>>
       /\ iters[i].it.err = "format_error"
       /\ iters[i].it.from > hdr.program_offset
       /\ FirstEmitting(InstrAt(iters[i].it.from)) = 0
       /\ hdr.instrs[1] # EncCopy

\* the opcode that operator++ executed last emits a row
LastEmits(it) ==
    /\ \E n \in 1..Len(hdr.instrs) : InstrOffset(n) = it.at /\ Emits(hdr.instrs[n])
    /\ it.out \/ it.err # "none"

\* C19: whenever operator++ emits a row, the row's file is the entry of the
\* file table at index file_index; and if the opcode that emits the row is
\* executed with a file_index that is not less than the size of the file
\* table, operator++ fails with format_error and yields no row.  (The table
\* only grows, so an index that is not in it now was not in it then; the
\* file of a row is read from the rows recorded when they were emitted.)
C19_FileResolved ==
    \A i \in Iters : iters[i].live =>
        LET it == iters[i].it
        IN /\ it.out /\ it.err = "none" =>
                 it.entry.file_index < Len(tab.file_names)
           /\ LastEmits(it) /\ it.pre.file_index >= Len(tab.file_names) =>
                 it.err = "format_error" /\ ~it.out /\ it.pos = it.from
           /\ \A k \in 1..Len(iters[i].rows) :
                 /\ iters[i].rows[k].file_index < Len(tab.file_names)
                 /\ iters[i].rows[k].file = tab.file_names[iters[i].rows[k].file_index + 1]

\* an iterator has emitted a row with its file resolved and has then
\* failed on a row whose file_index is not in the table
C19_Witness ==
    \E i \in Iters :
       /\ iters[i].live /\ iters[i].rows # <<>>
       /\ iters[i].rows[1].file = tab.file_names[iters[i].rows[1].file_index + 1]
       /\ iters[i].it.err = "format_error" /\ LastEmits(iters[i].it)
       /\ iters[i].it.pre.file_index >= Len(tab.file_names)

(***************************************************************************)
(* Properties of extended opcodes (checked under SpecFraming)              *)
(***************************************************************************)
\* the bytes that sub-opcode sub, read at offset p, and its operands take
Consumed(sub, p) ==
    CASE sub = DW_LNE.end_sequence -> 1
      [] sub = DW_LNE.set_address -> 1 + hdr.addr_size
      [] sub = DW_LNE.set_discriminator -> 1 + (Uleb128(hdr.sec, p + 1).pos - (p + 1))

\* C20: extended opcode framing.  When the opcode that operator++ executed
\* last is an extended opcode whose length field ends at offset s and holds
\* L: if the sub-opcode and its operands took at most L bytes and the call
\* raised no error, the cursor, and so the iterator, is at exactly s + L; if
\* they took more than L bytes, the call failed with format_error.
C20_ExtendedFraming ==
    \A i \in Iters :
       LET it == iters[i].it
           length == Uleb128(hdr.sec, it.at + 1)
           s == length.pos
           sub == hdr.sec[s + 1]
       IN /\ iters[i].live /\ (it.out \/ it.err # "none")
          /\ it.at + 2 < Len(hdr.sec) /\ hdr.sec[it.at + 1] = 0
          /\ sub \in {DW_LNE.end_sequence, DW_LNE.set_address, DW_LNE.set_discriminator}
          => /\ Consumed(sub, s) <= length.val /\ it.err = "none" => it.pos = s + length.val
             /\ Consumed(sub, s) > length.val => it.err = "format_error"

(***************************************************************************)
(* Properties of header parsing (SpecHeader).                              *)
(***************************************************************************)
Parsed == ctor # NoTable

\* C21: parsing a header fails with format_error and makes no table if the
\* version is outside 2..5, if maximum_operations_per_instruction (read for
\* version >= 4 only, and 1 before) is 0, or if line_range is 0; otherwise
\* none of these three checks fails.
C21_HeaderChecks ==
    Parsed /\ Whole(args) =>
        LET g == args.g
            version_ok == g.version \in 2..5
            max_ops == IF g.version >= 4 THEN g.max_ops ELSE 1
        IN /\ ~version_ok => ctor.err = "format_error" /\ ctor.stage = "version"
           /\ version_ok /\ max_ops = 0 =>
                 ctor.err = "format_error" /\ ctor.stage = "max_ops"
           /\ version_ok /\ max_ops # 0 /\ g.line_range = 0 =>
                 ctor.err = "format_error" /\ ctor.stage = "line_range"
           /\ version_ok /\ max_ops # 0 /\ g.line_range # 0 =>
                 ctor.stage \notin {"truncated", "version", "max_ops", "line_range"}
           /\ ctor.err = "none" =>
                 ctor.m.maximum_operations_per_instruction = max_ops

C21_Witness ==
    /\ Parsed /\ Whole(args)
    /\ args.g.version = 3 /\ args.g.max_ops = 0 /\ args.g.line_range = 0
    /\ ctor.err = "format_error" /\ ctor.stage = "line_range"

\* the argument counts of the twelve standard opcodes, copy to set_isa
CanonicalCounts == <<0, 1, 1, 1, 1, 0, 0, 0, 1, 0, 0, 1>>

PastFixedFields ==
    /\ Parsed /\ Whole(args)
    /\ ctor.stage \notin {"truncated", "version", "max_ops", "line_range"}

\* a count of the header that differs from the canonical count of its opcode
CountMismatch(g) ==
    \E i \in 1..(g.opcode_base - 1) :
        i <= Len(CanonicalCounts) /\ g.counts[i] # CanonicalCounts[i]

\* C22: parsing reads exactly opcode_base - 1 argument counts, and fails
\* with format_error if the count of a standard opcode differs from the
\* canonical count of that opcode; with no such count it goes past the
\* table with opcode_base - 1 counts read.
C22_OpcodeLengths ==
    PastFixedFields =>
        LET g == args.g
        IN IF CountMismatch(g)
           THEN ctor.err = "format_error" /\ ctor.stage = "opcode_lengths"
           ELSE /\ ctor.stage # "opcode_lengths"
                /\ ctor.err = "none" =>
                      /\ Len(ctor.m.standard_opcode_lengths) = g.opcode_base
                      /\ \A i \in 1..(g.opcode_base - 1) :
                            ctor.m.standard_opcode_lengths[i + 1] = g.counts[i]

\* the table has a file at index i (file_names is indexed from 0)
HasFile(t, i) == i + 1 <= Len(t.file_names)

ExpectedBase(version) == IF version >= 5 THEN 0 ELSE 1

\* C23 as stated: after a successful parse file_index_base is 0 for version
\* 5 and 1 before, and the file table has an entry at index file_index_base.
C23_FileAtBase ==
    Parsed /\ ctor.err = "none" =>
        /\ ctor.m.file_index_base = ExpectedBase(args.g.version)
        /\ HasFile(ctor.t, ctor.m.file_index_base)

\* C23, amended: after a successful parse file_index_base is 0 for version
\* 5 and 1 before, and the file table is not empty; for version 5 it has an
\* entry at index 0; for versions 2..4 the entry at index 0 is the file of
\* the compilation unit, and an entry at index 1 exists exactly when the
\* header lists a file.
C23_FileTableNotEmpty ==
    Parsed /\ ctor.err = "none" =>
        LET g == args.g
            cu_file == IF args.cu_name # <<>> /\ args.cu_name[1] = Slash
                       THEN args.cu_name
                       ELSE ctor.m.comp_dir \o args.cu_name
        IN /\ ctor.m.file_index_base = ExpectedBase(g.version)
           /\ HasFile(ctor.t, 0)
           /\ g.version < 5 =>
                 /\ ctor.t.file_names[1].path = cu_file
                 /\ Len(ctor.t.file_names) = 1 + Len(g.files)
                 /\ HasFile(ctor.t, ctor.m.file_index_base) <=> g.files # <<>>

C23_Witness ==
    /\ Parsed /\ ctor.err = "none"
    /\ args.g.version = 3 /\ args.g.files = <<>>
    /\ ctor.m.file_index_base = 1
    /\ Len(ctor.t.file_names) = 1

\* comp_dir as the constructor keeps it: with '/' at its end unless empty
NormalDir(cu_comp_dir) ==
    IF cu_comp_dir = <<>> \/ Last(cu_comp_dir) = Slash THEN cu_comp_dir
    ELSE Append(cu_comp_dir, Slash)

\* the directory dir of a header, with '/' ensured at its end, kept when
\* absolute and after comp_dir when not
Resolved(comp_dir, dir) ==
    LET slashed == IF Last(dir) = Slash THEN dir ELSE Append(dir, Slash)
    IN IF slashed[1] = Slash THEN slashed ELSE comp_dir \o slashed

\* the directories a table must hold: for versions 2..4 the implicit
\* directory 0 and the directories of the header, for version 5 the
\* records of the table
ListedDirs(g) == IF g.version >= 5 THEN g.dirs ELSE <<<<>>>> \o g.dirs

\* C24 as stated: after the header is parsed every include directory ends
\* with '/' and is the directory as given when absolute, or comp_dir
\* followed by the directory, for every comp_dir including the empty one.
C24_DirectoriesSlashed ==
    Parsed /\ ctor.err = "none" =>
        LET dirs == ctor.m.include_directories
            listed == ListedDirs(args.g)
            comp_dir == NormalDir(args.cu_comp_dir)
        IN /\ Len(dirs) = Len(listed)
           /\ \A k \in 1..Len(dirs) :
                 /\ dirs[k] # <<>> /\ Last(dirs[k]) = Slash
                 /\ dirs[k] = IF listed[k] = <<>> THEN comp_dir
                              ELSE Resolved(comp_dir, listed[k])

\* C24, amended: after the header is parsed every include directory is,
\* with comp_dir made to end with '/' unless empty, comp_dir itself for the
\* implicit directory 0 (versions 2..4) and for a record with an empty path
\* (version 5), and otherwise the directory with '/' ensured at its end,
\* kept when absolute and prefixed with comp_dir when not; it ends with '/'
\* unless it is empty, which happens only when comp_dir is empty.
C24_DirectoriesResolved ==
    Parsed /\ ctor.err = "none" =>
        LET dirs == ctor.m.include_directories
            listed == ListedDirs(args.g)
            comp_dir == NormalDir(args.cu_comp_dir)
        IN /\ Len(dirs) = Len(listed)
           /\ \A k \in 1..Len(dirs) :
                 /\ dirs[k] = IF listed[k] = <<>> THEN comp_dir
                              ELSE Resolved(comp_dir, listed[k])
                 /\ dirs[k] # <<>> => Last(dirs[k]) = Slash
                 /\ dirs[k] = <<>> => args.cu_comp_dir = <<>> /\ listed[k] = <<>>

C24_Witness ==
    /\ Parsed /\ ctor.err = "none"
    /\ args.g.version = 4 /\ args.cu_comp_dir = <<>>
    /\ args.g.dirs = <<<<100>>, <<47, 100>>>>
    /\ ctor.m.include_directories = <<<<>>, <<100, 47>>, <<47, 100, 47>>>>

(***************************************************************************)
(* Properties of the projections (SpecProject).                            *)
(***************************************************************************)
\* the forms each projection accepts
Accepted(op) ==
    CASE op = "as_address" ->
             {DW_FORM.addr, DW_FORM.addrx, DW_FORM.addrx1, DW_FORM.addrx2,
              DW_FORM.addrx3, DW_FORM.addrx4}
      [] op = "as_uconstant" ->
             {DW_FORM.data1, DW_FORM.data2, DW_FORM.data4, DW_FORM.data8,
              DW_FORM.udata, DW_FORM.implicit_const}
      [] op = "as_sconstant" ->
             {DW_FORM.data1, DW_FORM.data2, DW_FORM.data4, DW_FORM.data8,
              DW_FORM.sdata, DW_FORM.implicit_const}
      [] op \in {"as_block", "as_exprloc"} ->
             {DW_FORM.block1, DW_FORM.block2, DW_FORM.block4, DW_FORM.block,
              DW_FORM.exprloc}
      [] op = "as_flag" -> {DW_FORM.flag, DW_FORM.flag_present}
      [] op = "as_string" ->
             {DW_FORM.string, DW_FORM.strp, DW_FORM.line_strp, DW_FORM.strx,
              DW_FORM.strx1, DW_FORM.strx2, DW_FORM.strx3, DW_FORM.strx4}
      [] op = "as_reference" ->
             {DW_FORM.ref1, DW_FORM.ref2, DW_FORM.ref4, DW_FORM.ref8,
              DW_FORM.ref_udata, DW_FORM.ref_addr, DW_FORM.ref_sig8}
      [] op = "as_sec_offset" -> {DW_FORM.sec_offset, DW_FORM.data4, DW_FORM.data8}
      [] op = "as_rangelist" ->
             {DW_FORM.rnglistx, DW_FORM.sec_offset, DW_FORM.data4, DW_FORM.data8}

\* C25: a typed projection (as_address, as_uconstant, as_sconstant,
\* as_block, as_exprloc, as_flag, as_string, as_reference, as_sec_offset)
\* called on a value whose form it does not accept fails with
\* value_type_mismatch: it returns no value and raises no format_error.
C25_TypeMismatch ==
    proj # NoRet /\ proj.op # "as_rangelist" /\ val.v.form \notin Accepted(proj.op) =>
        proj.err = "value_type_mismatch"

C25_Witness ==
    /\ proj # NoRet /\ proj.op = "as_address"
    /\ val.v.form = DW_FORM.data4
    /\ cu.data = <<255, 1, 0, 0, 0, 0, 0, 0>>
    /\ proj.err = "value_type_mismatch"

\* the number that the first bytes of the unit's data hold
Stored(data) == data[1] + 256 * data[2]

\* C26: as_rangelist on a rnglistx value of index i < offset_entry_count
\* returns a DWARF 5 list at offset H + offset_entry_count * W + offsets[i]
\* of .debug_rnglists, H being 12 and W 4 in the 32-bit format, 20 and 8 in
\* the 64-bit format; on a value of another accepted form it returns a
\* DWARF 4 list at the stored offset of .debug_ranges.
C26_RangelistOffset ==
    proj # NoRet /\ proj.op = "as_rangelist" =>
        LET H == IF cu.lists64 THEN 20 ELSE 12
            W == IF cu.lists64 THEN 8 ELSE 4
            count == Len(cu.offsets)
        IN /\ val.v.form = DW_FORM.rnglistx /\ Len(cu.data) = 1 /\ cu.data[1] < count =>
                 /\ proj.err = "none"
                 /\ proj.val = [sec |-> "rnglists",
                                off |-> H + count * W + cu.offsets[cu.data[1] + 1],
                                is_dwarf5 |-> TRUE]
           /\ val.v.form \in {DW_FORM.sec_offset, DW_FORM.data4, DW_FORM.data8}
                 /\ Len(cu.data) = 8 =>
                 /\ proj.err = "none"
                 /\ proj.val = [sec |-> "ranges", off |-> Stored(cu.data),
                                is_dwarf5 |-> FALSE]

C26_Witness ==
    /\ proj # NoRet /\ proj.op = "as_rangelist"
    /\ val.v.form = DW_FORM.rnglistx
    /\ cu.lists64 /\ cu.offsets = <<3, 300>> /\ cu.data = <<1>>
    /\ proj.err = "none"
    /\ proj.val = [sec |-> "rnglists", off |-> 336, is_dwarf5 |-> TRUE]

(***************************************************************************)
(* Properties of opcodes that are not defined (SpecOpcodes).               *)
(***************************************************************************)
\* the iterator's last call executed an opcode
Executed(it) == (it.out \/ it.err # "none") /\ it.at < Len(hdr.sec)

\* C27: an extended opcode whose sub-opcode is in the vendor range
\* 128..255 fails with an error of another kind than format_error
\* (runtime_error, "not implemented"); an extended opcode whose sub-opcode
\* is otherwise not defined, and a standard opcode (1 <= opcode <
\* opcode_base) that is none of the twelve defined, fail with format_error.
C27_UndefinedOpcodes ==
    \A i \in Iters :
       LET it == iters[i].it
           opcode == hdr.sec[it.at + 1]
           sub == hdr.sec[it.at + 3]
       IN iters[i].live /\ Executed(it) =>
             /\ opcode = 0 /\ sub \in 128..255 =>
                   it.err = "runtime_error" /\ it.err # "format_error"
             /\ opcode = 0 /\ sub \notin 1..4 /\ sub \notin 128..255 =>
                   it.err = "format_error"
             /\ opcode \in 13..(hdr.opcode_base - 1) => it.err = "format_error"
             /\ it.err = "runtime_error" => opcode = 0 /\ sub \in 128..255

C27_Witness ==
    /\ iters[1].live /\ Executed(iters[1].it)
    /\ hdr.instrs = <<EncCopy, <<DW_LNS.negate_stmt>>, EncExtended(1, 200, <<>>)>>
    /\ iters[1].it.at = 6
    /\ iters[1].it.err = "runtime_error"

(***************************************************************************)
(* Properties of iterators that share a table (SpecShared).                *)
(***************************************************************************)
\* what iteration may change in a table: file_names (with the history of
\* its entries), last_file_name_end and file_names_complete
Bookkeeping == {"file_names", "added", "last_file_name_end", "file_names_complete"}

\* C28: a step that advances an iterator changes, in its table, nothing but
\* last_file_name_end, file_names and file_names_complete: the header
\* fields, the opcode lengths, the include directories and the file entry
\* formats stay as they are; it changes nothing in another table, and
\* nothing in the position, the row or the registers of another iterator.
C28_AdvanceFrame ==
    [][/\ hdr' = hdr
       /\ DOMAIN tab' = DOMAIN tab /\ DOMAIN tab \subseteq Bookkeeping
       /\ ctor' = ctor
       /\ \A i \in Iters :
             iters'[i] # iters[i] => \A j \in Iters \ {i} : iters'[j] = iters[j]]_vars

\* iterator 1 stands at a row while iterator 2 has gone further, past a
\* define_file that added a file to the table they share
C28_Witness ==
    /\ iters[1].live /\ iters[2].live
    /\ iters[1].it.out /\ iters[1].it.err = "none"
    /\ iters[1].it.pos < iters[2].it.pos
    /\ Len(tab.file_names) > Len(MakeTab(hdr.version).file_names)
    /\ Last(tab.added) > iters[1].it.pos
    /\ ctor.err = "none"

(***************************************************************************)
(* Properties of threads that share a table (SpecRace).                    *)
(***************************************************************************)
\* no define_file record was appended to file_names twice (added holds,
\* for each entry, the offset at which its record ends, 0 for the entries
\* of the header)
AppendedOnce(t) ==
    \A k, l \in 1..Len(t.added) : k < l /\ t.added[k] # 0 => t.added[k] # t.added[l]

\* C29: when every call of operator++ is one atomic step, every
\* interleaving of the calls of two threads keeps last_file_name_end from
\* decreasing and appends each define_file record at most once.  (That a
\* record can be appended twice without synchronisation is the witness.)
C29_AtomicCalls ==
    /\ [](thr.sync => AppendedOnce(tab))
    /\ [][thr.sync => tab'.last_file_name_end >= tab.last_file_name_end]_vars

\* without synchronisation: both threads compared the same record against
\* last_file_name_end before either updated it, and both appended it
C29_Witness ==
    /\ ~thr.sync
    /\ ~AppendedOnce(tab)
    /\ \A i \in Iters : thr.th[i].pc = "run"

(***************************************************************************)
(* Termination (SpecTerm).                                                 *)
(***************************************************************************)
\* the number of bytes of the line number program
ProgramSize == Len(hdr.sec) - hdr.program_offset

\* the number of calls of operator++ that the loop "for (; it != e; ++it)"
\* makes from it
RECURSIVE CallsToEnd(_, _, _, _)
CallsToEnd(m, t, it, e) ==
    IF it.err # "none" \/ IterEq(it, e) THEN 0
    ELSE LET advanced(r) == 1 + CallsToEnd(m, r.t, r.it, e)
         IN advanced(PlusPlus(m, t, it))

\* the iteration has come to its end: the iterator equals end(), or a call
\* raised an error
Finished(i) == iters[i].live /\ (iters[i].it.err # "none" \/ AtEnd(i))

Errors == {"none", "format_error", "runtime_error", "out_of_range"}

\* C30: every operation terminates.  Repeated operator++ from begin()
\* reaches a state equal to end() or raises an error: each call that raises
\* none moves the iterator forward in the section, never past its end, so
\* the calls are at most as many as the bytes of the program; and get_file
\* and find_address return, with a result or an error.
C30_Terminates ==
    /\ [](iters[1].live /\ iters[1].it.err = "none" =>
             /\ iters[1].it.pos <= Len(hdr.sec)
             /\ Len(iters[1].rows) <= ProgramSize
             /\ CallsToEnd(hdr, tab, iters[1].it, EndIt)
                   <= Len(hdr.sec) - iters[1].it.pos
             /\ ~AtEnd(1) =>
                   LET r == PlusPlus(hdr, tab, iters[1].it)
                   IN r.it.err # "none" \/ r.it.pos > iters[1].it.pos)
    /\ [](ret # NoRet => ret.err \in Errors)
    /\ [][iters[1].live /\ iters'[1] # iters[1] =>
             iters'[1].it.err # "none" \/ iters'[1].it.pos > iters[1].it.pos]_vars
    /\ <>Finished(1)

\* an extended opcode that declared 9 bytes where 2 were left was executed,
\* a row after it was reached, and the iteration came to end()
C30_Witness ==
    /\ Len(hdr.sec) = hdr.program_offset + 5
    /\ SubSeq(hdr.sec, hdr.program_offset + 1, hdr.program_offset + 5) =
          EncExtended(9, DW_LNE.set_discriminator, <<5>>) \o EncCopy
    /\ iters[1].live
    /\ iters[1].it.err = "none"
    /\ AtEnd(1)
    /\ Len(iters[1].rows) = 1
    /\ iters[1].rows[1].discriminator = 5

(***************************************************************************)
(* Properties of the registers, opcode by opcode (SpecStep).               *)
(***************************************************************************)
RegNames ==
    {"address", "op_index", "file", "file_index", "line", "column", "is_stmt",
     "basic_block", "end_sequence", "prologue_end", "epilogue_begin", "isa",
     "discriminator"}

\* the registers a row emission clears
Transient == {"basic_block", "prologue_end", "epilogue_begin", "discriminator"}

\* r and q hold the same values but for the registers of S
SameBut(r, q, S) == \A n \in RegNames \ S : r[n] = q[n]

\* the first byte of the opcode the iterator is about to execute
OpcodeAt(th) == hdr.sec[th.pos + 1]

\* the iterator went from th to th2 by executing one opcode with no error
Ran(th, th2) == th.pc = "run" /\ th2.pc = "run" /\ th2.pos > th.pos

\* the opcode at th emits a row as a special opcode or as copy
EmitsRow(th) == OpcodeAt(th) >= hdr.opcode_base \/ OpcodeAt(th) = DW_LNS.copy

\* C31: a row emitted by a special opcode or by copy is a snapshot of all
\* the registers (basic_block, prologue_end, epilogue_begin, discriminator
\* as set before the emission; for copy every register as it was), and the
\* emission then clears exactly these four in the working registers: the
\* others keep the values of the row.
C31_RowSnapshot ==
    [][LET th == thr.th[1]
           th2 == thr'.th[1]
       IN Ran(th, th2) /\ EmitsRow(th) =>
             /\ SameBut(th2.entry, th.regs, {"address", "op_index", "line", "file"})
             /\ OpcodeAt(th) = DW_LNS.copy => SameBut(th2.entry, th.regs, {"file"})
             /\ SameBut(th2.regs, th2.entry, Transient \cup {"file"})
             /\ ~th2.regs.basic_block /\ ~th2.regs.prologue_end
             /\ ~th2.regs.epilogue_begin /\ th2.regs.discriminator = 0]_vars

\* a row was emitted with basic_block and discriminator set, and the
\* working registers have them cleared
C31_Witness ==
    /\ ~thr.sync
    /\ thr.th[1].pc = "run"
    /\ thr.th[1].entry.file # NoFile
    /\ thr.th[1].entry.basic_block /\ thr.th[1].entry.discriminator = 5
    /\ ~thr.th[1].regs.basic_block /\ thr.th[1].regs.discriminator = 0

\* the opcode at th is one that emits no row: a standard opcode other than
\* copy, or the extended opcodes set_address and set_discriminator
NonEmitting(th) ==
    \/ OpcodeAt(th) \in 2..12
    \/ /\ OpcodeAt(th) = 0
       /\ hdr.sec[th.pos + 3] \in {DW_LNE.set_address, DW_LNE.set_discriminator}

\* the code of the opcode at th: of an extended opcode, its sub-opcode
SubOpcodeAt(th) == hdr.sec[th.pos + 3]

\* the registers the opcode at th may change
OwnRegisters(th) ==
    LET o == OpcodeAt(th)
    IN CASE o \in {DW_LNS.advance_pc, DW_LNS.const_add_pc, DW_LNS.fixed_advance_pc} ->
               {"address", "op_index"}
         [] o = DW_LNS.advance_line -> {"line"}
         [] o = DW_LNS.set_file -> {"file_index"}
         [] o = DW_LNS.set_column -> {"column"}
         [] o = DW_LNS.negate_stmt -> {"is_stmt"}
         [] o = DW_LNS.set_basic_block -> {"basic_block"}
         [] o = DW_LNS.set_prologue_end -> {"prologue_end"}
         [] o = DW_LNS.set_epilogue_begin -> {"epilogue_begin"}
         [] o = DW_LNS.set_isa -> {"isa"}
         [] o = 0 /\ SubOpcodeAt(th) = DW_LNE.set_address -> {"address", "op_index"}
         [] o = 0 /\ SubOpcodeAt(th) = DW_LNE.set_discriminator -> {"discriminator"}

\* the values the opcode at th gives its registers: r before, q after
OwnEffect(th, r, q) ==
    LET o == OpcodeAt(th)
        operand == hdr.sec[th.pos + 2]
    IN CASE o = DW_LNS.advance_line ->
               q.line = r.line + (IF operand >= 64 THEN operand - 128 ELSE operand)
         [] o = DW_LNS.set_file -> q.file_index = operand
         [] o = DW_LNS.set_column -> q.column = operand
         [] o = DW_LNS.negate_stmt -> q.is_stmt = ~r.is_stmt
         [] o = DW_LNS.set_basic_block -> q.basic_block
         [] o = DW_LNS.set_prologue_end -> q.prologue_end
         [] o = DW_LNS.set_epilogue_begin -> q.epilogue_begin
         [] o = DW_LNS.set_isa -> q.isa = operand
         [] o = DW_LNS.fixed_advance_pc ->
               q.address = r.address + operand + 256 * hdr.sec[th.pos + 3]
               /\ q.op_index = 0
         [] o = 0 /\ SubOpcodeAt(th) = DW_LNE.set_address ->
               q.address = hdr.sec[th.pos + 4] /\ q.op_index = 0
         [] o = 0 /\ SubOpcodeAt(th) = DW_LNE.set_discriminator ->
               q.discriminator = hdr.sec[th.pos + 4]
         [] OTHER -> TRUE

\* C32: an opcode that emits no row changes only its own registers, to the
\* values its operand gives, and leaves the committed row as it was:
\* advance_line only line (line += n), set_file only file_index, set_column
\* only column, negate_stmt only is_stmt (flipped), set_basic_block,
\* set_prologue_end and set_epilogue_begin only their flag (set),
\* set_isa only isa, set_discriminator only discriminator, advance_pc and
\* const_add_pc only address and op_index, fixed_advance_pc address += n
\* and op_index = 0, set_address address = a and op_index = 0.
C32_OwnRegisters ==
    [][LET th == thr.th[1]
           th2 == thr'.th[1]
       IN Ran(th, th2) /\ NonEmitting(th) =>
             /\ th2.entry = th.entry
             /\ SameBut(th2.regs, th.regs, OwnRegisters(th))
             /\ OwnEffect(th, th.regs, th2.regs)]_vars

\* advance_pc moved address and op_index to 1 and fixed_advance_pc then
\* set op_index to 0 and added 5 to the address; no row has been emitted
C32_Witness ==
    /\ ~thr.sync
    /\ thr.th[1].pc = "run"
    /\ Len(hdr.instrs) = 3
    /\ SubSeq(hdr.instrs, 1, 2) = <<<<DW_LNS.advance_pc, 3>>, <<DW_LNS.fixed_advance_pc, 5, 0>>>>
    /\ thr.th[1].pos = hdr.program_offset + 5
    /\ thr.th[1].regs.address = 6 /\ thr.th[1].regs.op_index = 0
    /\ thr.th[1].entry = Reset(hdr.default_is_stmt, hdr.file_index_base)

(***************************************************************************)
(* file_names_complete (Spec).                                             *)
(***************************************************************************)
\* the offset at which the k-th instruction of the program ends
EndOfInstr(k) == hdr.program_offset + Len(Flatten(SubSeq(hdr.instrs, 1, k)))

\* the define_file record that ends at offset off has been processed: its
\* entry was appended to file_names, or last_file_name_end covers it
Processed(t, off) ==
    \/ \E j \in 1..Len(t.added) : t.added[j] = off
    \/ off <= t.last_file_name_end

\* the call of operator++ that left the iterator it executed an opcode, and
\* its cursor was at the end of the program after the last one
EndedProgram(it) ==
    /\ it.at < Len(hdr.sec)
    /\ it.err = "none" => it.out /\ it.pos = Len(hdr.sec)
    /\ step(hdr, tab, it.pre, it.entry, it.at).pos = Len(hdr.sec)

\* C33: file_names_complete is false after header parsing; it becomes true
\* only by a call of operator++ that executed at least one opcode and ended
\* with its cursor at the end of the program (a call of the caller, or one
\* of get_file's forced iteration); it never becomes false again; and
\* wherever it is true every define_file record of the program has been
\* processed, and get_file decides without iterating and without changing
\* the table.
C33_FileNamesComplete ==
    /\ ~tab.file_names_complete
    /\ [][tab.file_names_complete => tab'.file_names_complete]_vars
    /\ [][~tab.file_names_complete /\ tab'.file_names_complete =>
             \/ \E i \in Iters : iters'[i] # iters[i] /\ EndedProgram(iters'[i].it)
             \/ GetFileReturned /\ ret'.iterated]_vars
    /\ [](tab.file_names_complete =>
             /\ \A k \in DefineFiles : Processed(tab, EndOfInstr(k))
             /\ \A index \in FileIndices :
                   /\ ~get_file(hdr, tab, index).iterated
                   /\ get_file(hdr, tab, index).t = tab)

\* an iterator has reached the end of a program with a define_file record:
\* the flag is set and the record's entry is in the table
C33_Witness ==
    /\ tab.file_names_complete
    /\ DefineFiles # {}
    /\ \E j \in 1..Len(tab.added) : tab.added[j] # 0
    /\ iters[1].live /\ iters[1].it.err = "none" /\ iters[1].it.pos = Len(hdr.sec)
    /\ ret = NoRet

(***************************************************************************)
(* Bounds of the arrays of the constructor (SpecHeader).                   *)
(***************************************************************************)
\* C34: header parsing stays within bounds for every opcode_base: the
\* constructor never reads opcode_lengths, which has 13 entries, at an
\* index of 13 or more, and never writes standard_opcode_lengths at an
\* index that is not below its size.
C34_WithinBounds == Parsed => ctor.m.out_of_bounds = {}

(***************************************************************************)
(* Records that fail (SpecFail).                                           *)
(***************************************************************************)
\* the call that left the iterator it failed with format_error in the first
\* opcode it executed, a define_file: step raised the error on the table t
\* the call began with
FailedAtRecord(t, it) ==
    /\ it.err = "format_error"
    /\ it.at = it.from
    /\ IsDefineFile(hdr, it.at)
    /\ step(hdr, t, it.pre, it.entry, it.at).err = "format_error"

\* C35: when processing a define_file record fails with format_error, the
\* failed step leaves last_file_name_end and file_names as they were, and
\* the same call on the table it leaves fails with the same error at the
\* same record.
C35_FailedRecord ==
    [][\A i \in Iters :
          iters'[i] # iters[i] /\ FailedAtRecord(tab, iters'[i].it) =>
             /\ tab'.last_file_name_end = tab.last_file_name_end
             /\ tab'.file_names = tab.file_names
             /\ LET again == IF iters[i].live THEN PlusPlus(hdr, tab', iters[i].it)
                             ELSE begin(hdr, tab')
                IN again.it.err = "format_error" /\ again.it.at = iters'[i].it.at]_vars

(***************************************************************************)
(* Iterators of one table against an iterator alone (SpecFail).            *)
(***************************************************************************)
\* the iterator left by n calls of operator++ on the table state t, the
\* first of which left it; the calls stop at an error
RECURSIVE AloneFrom(_, _, _)
AloneFrom(t, it, n) ==
    IF n <= 1 \/ it.err # "none" THEN it
    ELSE LET advanced(r) == AloneFrom(r.t, r.it, n - 1)
         IN advanced(PlusPlus(hdr, t, it))

\* the iterator that n calls of operator++ leave, begin() being the first,
\* when it is the only iterator of a table the constructor has just made
Alone(n) ==
    LET begun(b) == AloneFrom(b.t, b.it, n)
    IN begun(begin(hdr, MakeTab(hdr.version)))

\* the calls of operator++ iterator i has made: one for every row, and the
\* one that failed or that found the program empty
CallsOf(i) ==
    IF iters[i].it.err # "none" THEN Len(iters[i].rows) + 1
    ELSE IF iters[i].rows = <<>> THEN 1
    ELSE Len(iters[i].rows)

\* C36: two iterators of one table, advanced in any interleaving of whole
\* calls of operator++, do not interfere: after each call an iterator has
\* the error, the row (registers and resolved file), the working registers
\* and the position that the same number of calls leaves an iterator that
\* is alone on a freshly parsed table.
C36_NonInterference ==
    \A i \in Iters :
        iters[i].live =>
            LET a == Alone(CallsOf(i))
            IN /\ iters[i].it.err = a.err
               /\ iters[i].it.entry = a.entry
               /\ iters[i].it.regs = a.regs
               /\ iters[i].it.pos = a.pos

====
